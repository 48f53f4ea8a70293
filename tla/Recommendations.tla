--------------------------- MODULE Recommendations ---------------------------
(***************************************************************************)
(* The recommendations of one run (api/routes.py, "Recommendations"): they *)
(* are generated from the results, as often as staff like, and each is     *)
(* proposed, accepted, dismissed or archived by hand.                      *)
(***************************************************************************)
EXTENDS Naturals, FiniteSets

CONSTANTS
    Worker,
    Action,         \* action types, the keys of ACTION_TAXONOMY
    Store,          \* "memory" or "postgres"
    MaxGenerated    \* bound: how often recommendations are generated

\* What the constants are: the module that gives them values assumes it.
ConstantsAssumption ==
    Store \in {"memory", "postgres"} /\ MaxGenerated \in Nat

VARIABLES
    recs,       \* the table, as a set of records
    generated,  \* how often recommendations were generated
    pc, req     \* the request of a worker

vars == <<recs, generated, pc, req>>

Promoted == {"proposed", "accepted", "dismissed", "archived"}
RecStatus == Promoted \cup {"draft"}

Id == Action \X Nat
Record == [id : Id, action : Action, status : RecStatus]

\* An id is fresh: the action and the number of the generation.
Drafts(actions, n) ==
    {[id |-> <<a, n>>, action |-> a, status |-> "draft"] : a \in actions}

\* The key by which a row is found again.
Matches(rec, row) == row.action = rec.action

\* Mutant: only a status that clients see is kept.
KeptVisible(row, rec) ==
    [row EXCEPT !.status = IF @ \in {"proposed", "accepted"} THEN @ ELSE rec.status]
\* The row in memory is updated with the new content: its id stays, and its
\* status once it was promoted.
Kept(row, rec) ==
    [row EXCEPT !.status = IF @ \in Promoted THEN @ ELSE rec.status]

\* upsert_recommendations_for_run.  In memory the rows are looked up by action
\* type under the lock; Postgres inserts on conflict (run_id, action_type) with
\* every column of the new record, its id and its status among them.
Upserted(rows, fresh) ==
    LET old(rec) == CHOOSE row \in rows : Matches(rec, row)
        new == {rec \in fresh : \A row \in rows : ~Matches(rec, row)}
    IN  (rows \ {old(rec) : rec \in fresh \ new})
            \cup {IF rec \in new \/ Store = "postgres" THEN rec
                  ELSE Kept(old(rec), rec) : rec \in fresh}

Idle == [id |-> <<"none", 0>>, status |-> "draft", fresh |-> {}]

Init ==
    /\ recs = {}
    /\ generated = 0
    /\ pc = [w \in Worker |-> "idle"]
    /\ req = [w \in Worker |-> Idle]

Goto(w, label, request) ==
    /\ pc' = [pc EXCEPT ![w] = label]
    /\ req' = [req EXCEPT ![w] = request]

(***************************************************************************)
(* Generate: the engine answers with some action types, each once, from    *)
(* what coverage and summary say at this moment ...                        *)
(***************************************************************************)
GenerateRead(w) ==
    /\ pc[w] = "idle"
    /\ generated < MaxGenerated
    /\ \E actions \in SUBSET Action \ {{}} :
        Goto(w, "upsert", [Idle EXCEPT !.fresh = Drafts(actions, generated)])
    /\ generated' = generated + 1
    /\ UNCHANGED recs

(***************************************************************************)
(* ... and the drafts are stored.                                          *)
(***************************************************************************)
Upsert(w) ==
    /\ pc[w] = "upsert"
    /\ recs' = Upserted(recs, req[w].fresh)
    /\ Goto(w, "idle", Idle)
    /\ UNCHANGED generated

(***************************************************************************)
(* Propose, dismiss, archive, accept: the row is read, from any status ... *)
(***************************************************************************)
TransitionRead(w) ==
    /\ pc[w] = "idle"
    /\ \E rec \in recs, s \in Promoted :
        Goto(w, "transition", [Idle EXCEPT !.id = rec.id, !.status = s])
    /\ UNCHANGED <<recs, generated>>

(***************************************************************************)
(* ... and its status is written by id, or 404 if the id is gone.          *)
(***************************************************************************)
TransitionWrite(w) ==
    /\ pc[w] = "transition"
    /\ recs' = {IF rec.id = req[w].id THEN [rec EXCEPT !.status = req[w].status]
                ELSE rec : rec \in recs}
    /\ Goto(w, "idle", Idle)
    /\ UNCHANGED generated

Next == \E w \in Worker :
    GenerateRead(w) \/ Upsert(w) \/ TransitionRead(w) \/ TransitionWrite(w)

Spec == Init /\ [][Next]_vars

-----------------------------------------------------------------------------
(* Properties *)

TypeOK ==
    /\ recs \subseteq Record
    /\ generated \in 0 .. MaxGenerated
    /\ pc \in [Worker -> {"idle", "upsert", "transition"}]
    /\ \A w \in Worker :
        /\ req[w].status \in RecStatus
        /\ req[w].fresh \subseteq Record
        /\ pc[w] = "transition" => req[w].id \in Id

\* "Re-running generate is safe: existing records with status already proposed,
\* accepted, dismissed, or archived keep their status": what was decided on an
\* action never turns into a draft again.
DecisionsKept ==
    \A r \in recs : r.status \in Promoted =>
        \E s \in recs' : s.action = r.action /\ s.status \in Promoted
PromotedIsKept == [][DecisionsKept]_vars
=============================================================================

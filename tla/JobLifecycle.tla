---------------------------- MODULE JobLifecycle ----------------------------
(***************************************************************************)
(* What a chunked background job promises the browser that polls it: a job *)
(* carries a set of items left to do; work only takes items away; a job is *)
(* completed only when nothing is left; it may fail or be cancelled while  *)
(* it is active; and a terminal job never changes again.                   *)
(*                                                                         *)
(* The promise of the statuses in domain/classification_job.py and         *)
(* domain/ingestion_job.py, without any of the steps that keep it.         *)
(***************************************************************************)
CONSTANTS JobId, Item

VARIABLES
    status,     \* status of each job
    left        \* items each job has not handled yet

vars == <<status, left>>

Active == {"queued", "running"}
Completed == {"completed", "completed_with_errors"}
Stopped == {"failed", "cancelled"}

Init ==
    /\ status = [j \in JobId |-> "absent"]
    /\ left = [j \in JobId |-> {}]

(* A job is created queued, or already completed when there is no work.    *)
Create(j) ==
    /\ status[j] = "absent"
    /\ \E items \in SUBSET Item, s \in {"queued"} \cup Completed :
        /\ s \in Completed => items = {}
        /\ left' = [left EXCEPT ![j] = items]
        /\ status' = [status EXCEPT ![j] = s]

(* An active job handles some items and goes on, or finishes.              *)
Work(j) ==
    /\ status[j] \in Active
    /\ \E rest \in SUBSET left[j], s \in {"running"} \cup Completed :
        /\ s \in Completed => rest = {}
        /\ left' = [left EXCEPT ![j] = rest]
        /\ status' = [status EXCEPT ![j] = s]

(* An active job is given up: a user cancels it, or it cannot go on.  A     *)
(* failing job may give up the items it failed on with it.                 *)
Stop(j) ==
    /\ status[j] \in Active
    /\ \E s \in Stopped : status' = [status EXCEPT ![j] = s]
    /\ \E rest \in SUBSET left[j] : left' = [left EXCEPT ![j] = rest]

Next == \E j \in JobId : Create(j) \/ Work(j) \/ Stop(j)

Spec == Init /\ [][Next]_vars
=============================================================================

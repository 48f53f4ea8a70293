---------------------------- MODULE ReportExports ----------------------------
(***************************************************************************)
(* The exports of one run and their approval: rendered, submitted for      *)
(* review, approved or rejected by the methodology lead, delivered, and    *)
(* downloaded by the client (api/routes.py, "Exports").  A request reads   *)
(* the row, checks it, writes it without looking again, and appends an     *)
(* event to the audit log: other requests come in between.                 *)
(***************************************************************************)
EXTENDS Naturals, Sequences, FiniteSetsExt

CONSTANTS
    Worker,         \* requests served at the same time
    Format,         \* "csv", "json", "md"
    Store,          \* "memory" or "postgres"
    MaxExports,     \* bound: exports ever rendered
    MaxDownloads,   \* bound: downloads counted on one export
    MaxDeaths       \* bound: requests that die or whose store call fails

\* What the constants are: the module that gives them values assumes it.
ConstantsAssumption ==
    /\ Store \in {"memory", "postgres"}
    /\ MaxExports \in Nat /\ MaxDownloads \in Nat /\ MaxDeaths \in Nat

VARIABLES
    exports,    \* report_exports, in the order of created_at
    audit,      \* the events in the audit log, as <<action, export>>
    given,      \* history: exports a client was given a link to
    pc,         \* what the request of a worker does next
    req,        \* its parameters, and what it has read
    deaths

vars == <<exports, audit, given, pc, req, deaths>>

Status == {"draft", "under_review", "approved", "rejected", "delivered"}
ClientVisible == {"approved", "delivered"}
AlteraRole == {"altera_admin", "altera_analyst", "altera_reviewer",
               "altera_methodology_lead"}
User == AlteraRole \cup {"none"}

ExportRecord ==
    [format : Format, status : Status, approvedBy : User, rejectedBy : User,
     reviewedBy : User, deliveredBy : User, downloads : Nat]

Draft(format) ==
    [format |-> format, status |-> "draft", approvedBy |-> "none",
     rejectedBy |-> "none", reviewedBy |-> "none", deliveredBy |-> "none",
     downloads |-> 0]

ExportId == DOMAIN exports

\* Who may do what: the permissions of AuthContext.
May ==
    [submit  |-> AlteraRole,
     approve |-> {"altera_methodology_lead"},
     reject  |-> {"altera_methodology_lead"},
     deliver |-> {"altera_methodology_lead", "altera_admin"}]

\* Mutant: anything that is not rejected can be delivered.
AllowedUnapproved(op, record) == op = "deliver" => record.status # "rejected"
\* What a route asks of the row it has read.
Allowed(op, record) ==
    CASE op = "submit" -> record.status # "delivered"
      [] op = "deliver" -> record.status = "approved"
      [] OTHER -> TRUE

\* The row after the update.  The in-memory update_export_approval builds a new
\* record and leaves out the fields that review, delivery and downloads set.
Rebuilt(record) ==
    IF Store = "memory"
    THEN [record EXCEPT !.reviewedBy = "none", !.deliveredBy = "none",
                        !.downloads = 0]
    ELSE record

Updated(op, record, user) ==
    CASE op = "submit" ->
            [record EXCEPT !.status = "under_review", !.reviewedBy = user]
      [] op = "approve" ->
            [Rebuilt(record) EXCEPT !.status = "approved", !.approvedBy = user]
      [] op = "reject" ->
            [Rebuilt(record) EXCEPT !.status = "rejected", !.rejectedBy = user]
      [] op = "deliver" ->
            [record EXCEPT !.status = "delivered", !.deliveredBy = user]

Idle == [op |-> "none", export |-> 0, by |-> "none", seen |-> 0]

Init ==
    /\ exports = <<>>
    /\ audit = {}
    /\ given = {}
    /\ pc = [w \in Worker |-> "idle"]
    /\ req = [w \in Worker |-> Idle]
    /\ deaths = 0

Goto(w, label, request) ==
    /\ pc' = [pc EXCEPT ![w] = label]
    /\ req' = [req EXCEPT ![w] = request]

(***************************************************************************)
(* Staff export the run: the file is uploaded and a draft is recorded.     *)
(* (When the record cannot be written the error is swallowed, and nothing  *)
(* but the file remains.)                                                  *)
(***************************************************************************)
Render(w) ==
    /\ pc[w] = "idle"
    /\ Len(exports) < MaxExports
    /\ \E f \in Format :
        /\ exports' = Append(exports, Draft(f))
        /\ Goto(w, "audit", [Idle EXCEPT !.op = "generate",
                                         !.export = Len(exports) + 1])
    /\ UNCHANGED <<audit, given, deaths>>

(***************************************************************************)
(* Submit, approve, reject, deliver: the row is read and checked ...       *)
(***************************************************************************)
ReadExport(w) ==
    /\ pc[w] = "idle"
    /\ \E e \in ExportId, op \in DOMAIN May : \E u \in May[op] :
        /\ Allowed(op, exports[e])
        /\ Goto(w, "write", [Idle EXCEPT !.op = op, !.export = e, !.by = u])
    /\ UNCHANGED <<exports, audit, given, deaths>>

(***************************************************************************)
(* ... and written, whatever it has become.                                *)
(***************************************************************************)
WriteExport(w) ==
    /\ pc[w] = "write"
    /\ LET r == req[w]
       IN  /\ exports' = [exports EXCEPT ![r.export] =
                                Updated(r.op, exports[r.export], r.by)]
           /\ Goto(w, "audit", r)
    /\ UNCHANGED <<audit, given, deaths>>

(***************************************************************************)
(* The event is appended.  On Postgres nothing is: append_audit reads      *)
(* fields that an AuditEvent does not have, and swallows the error.        *)
(***************************************************************************)
Logged(r) == IF Store = "memory" THEN {<<r.op, r.export>>} ELSE {}

AppendAudit(w) ==
    /\ pc[w] = "audit"
    /\ audit' = audit \cup Logged(req[w])
    /\ IF req[w].op = "download" THEN Goto(w, "sign", req[w])
                                 ELSE Goto(w, "idle", Idle)
    /\ UNCHANGED <<exports, given, deaths>>

(***************************************************************************)
(* A client downloads the run in a format: the latest export that was      *)
(* approved or delivered.                                                  *)
(***************************************************************************)
Available(f) ==
    {e \in ExportId : exports[e].format = f /\ exports[e].status \in ClientVisible}

DownloadRead(w) ==
    /\ pc[w] = "idle"
    /\ \E f \in Format :
        /\ Available(f) # {}
        /\ Goto(w, "count", [Idle EXCEPT !.op = "download",
                                         !.export = Max(Available(f))])
    /\ UNCHANGED <<exports, audit, given, deaths>>

\* record_client_download: one step in memory; on Postgres a read (of a row the
\* client may no longer see) and a write of what was read.
CountInMemory(w) ==
    LET e == req[w].export
    IN  /\ Store = "memory"
        /\ pc[w] = "count"
        /\ exports[e].downloads < MaxDownloads
        /\ exports' = [exports EXCEPT ![e].downloads = @ + 1]
        /\ Goto(w, "audit", req[w])
        /\ UNCHANGED <<audit, given, deaths>>

CountRead(w) ==
    LET e == req[w].export
    IN  /\ Store = "postgres"
        /\ pc[w] = "count"
        /\ exports[e].downloads < MaxDownloads
        /\ IF exports[e].status \in ClientVisible
           THEN Goto(w, "recount", [req[w] EXCEPT !.seen = exports[e].downloads])
           ELSE Goto(w, "audit", req[w])
        /\ UNCHANGED <<exports, audit, given, deaths>>

CountWrite(w) ==
    /\ pc[w] = "recount"
    /\ exports' = [exports EXCEPT ![req[w].export].downloads = req[w].seen + 1]
    /\ Goto(w, "audit", [req[w] EXCEPT !.seen = 0])
    /\ UNCHANGED <<audit, given, deaths>>

SignUrl(w) ==
    /\ pc[w] = "sign"
    /\ given' = given \cup {req[w].export}
    /\ Goto(w, "idle", Idle)
    /\ UNCHANGED <<exports, audit, deaths>>

(***************************************************************************)
(* A request dies, or a store or storage call fails: 500, 502.             *)
(***************************************************************************)
Die(w) ==
    /\ pc[w] # "idle"
    /\ deaths < MaxDeaths
    /\ deaths' = deaths + 1
    /\ Goto(w, "idle", Idle)
    /\ UNCHANGED <<exports, audit, given>>

Next == \E w \in Worker :
    \/ Render(w) \/ ReadExport(w) \/ WriteExport(w) \/ AppendAudit(w)
    \/ DownloadRead(w) \/ CountInMemory(w) \/ CountRead(w) \/ CountWrite(w)
    \/ SignUrl(w) \/ Die(w)

Spec == Init /\ [][Next]_vars

-----------------------------------------------------------------------------
(* Properties *)

Request ==
    [op : DOMAIN May \cup {"none", "generate", "download"},
     export : Nat, by : User, seen : Nat]

TypeOK ==
    /\ exports \in Seq(ExportRecord)
    /\ audit \subseteq (DOMAIN May \cup {"generate", "download"}) \X ExportId
    /\ given \subseteq ExportId
    /\ pc \in [Worker -> {"idle", "write", "audit", "count", "recount", "sign"}]
    /\ req \in [Worker -> Request]
    /\ \A w \in Worker : pc[w] # "idle" => req[w].export \in ExportId
    /\ deaths \in 0 .. MaxDeaths

\* "Clients may only download exports with status approved or delivered": what
\* a client can list, or was ever given, has been approved by the methodology
\* lead, although deliver writes over a row that may have been resubmitted or
\* rejected since it was read.
ClientsGetApproved ==
    \A e \in ExportId :
        exports[e].status \in ClientVisible \/ e \in given
            => exports[e].approvedBy = "altera_methodology_lead"

\* "Audit events are emitted for every lifecycle transition": a delivered
\* export has its approval in the audit log, or the request that approved it
\* is about to append it, unless a request died on the way.
DeliveryIsTraceable ==
    Store = "memory" /\ deaths = 0 =>
        \A e \in ExportId : exports[e].status = "delivered" =>
            \/ <<"approve", e>> \in audit
            \/ \E w \in Worker : pc[w] = "audit"
                    /\ req[w].op = "approve" /\ req[w].export = e
=============================================================================

------------------------- MODULE ReportExportsProofs -------------------------
(***************************************************************************)
(* Proofs about ReportExports, for any number of exports and requests, on  *)
(* either store.                                                           *)
(***************************************************************************)
EXTENDS ReportExports, SequenceTheorems, WellFoundedInduction, TLAPS

Lead == "altera_methodology_lead"

Requests ==
    [op : {"submit", "approve", "reject", "deliver", "none", "generate", "download"},
     export : Nat, by : User, seen : Nat]

Types ==
    /\ exports \in Seq(ExportRecord)
    /\ pc \in [Worker -> {"idle", "write", "audit", "count", "recount", "sign"}]
    /\ req \in [Worker -> Requests]
    /\ given \subseteq ExportId
    /\ deaths \in Nat

\* A request is about an export that exists; what it writes was its right.
RequestsFit ==
    \A w \in Worker :
        /\ pc[w] # "idle" => req[w].export \in ExportId
        /\ pc[w] = "write" =>
            /\ req[w].op \in DOMAIN May
            /\ req[w].by \in May[req[w].op]
        /\ pc[w] \in {"count", "recount", "sign"} => req[w].op = "download"

\* An approval is never forgotten: what is to be delivered or handed out has been
\* approved, although its status may have changed since it was read.
ApprovedFirst ==
    /\ \A w \in Worker :
        pc[w] # "idle" /\ req[w].op \in {"deliver", "download"} =>
            exports[req[w].export].approvedBy = Lead
    /\ \A e \in ExportId :
        exports[e].status \in ClientVisible \/ e \in given =>
            exports[e].approvedBy = Lead

\* An approval is in the log or on its way there.
ApprovalLogged ==
    Store = "memory" /\ deaths = 0 =>
        \A e \in ExportId : exports[e].approvedBy = Lead =>
            \/ <<"approve", e>> \in audit
            \/ \E w \in Worker : pc[w] = "audit"
                    /\ req[w].op = "approve" /\ req[w].export = e

IInv == Types /\ RequestsFit /\ ApprovedFirst /\ ApprovalLogged

-----------------------------------------------------------------------------
(* Lemmas *)

\* A set of positions that is not empty has a last one.
LEMMA LastOne ==
    ASSUME NEW n \in Nat, NEW S \in SUBSET (1 .. n), S # {}
    PROVE  Max(S) \in S
<1> DEFINE T == {n - e : e \in S}
           R == OpToRel(<, Nat)
<1>1. T \subseteq Nat /\ T # {}
  <2>1. \A e \in S : n - e \in Nat
    OBVIOUS
  <2>2. PICK e \in S : TRUE
    OBVIOUS
  <2>3. n - e \in T
    BY <2>2
  <2> QED
    BY <2>1, <2>3
<1>2. IsWellFoundedOn(R, Nat)
  BY NatLessThanWellFounded
<1>3. PICK x \in T : \A y \in T : ~ (<<y, x>> \in R)
  BY <1>1, <1>2, WFMin, Zenon
<1>4. \A y \in T : ~(y < x)
  BY <1>1, <1>3 DEF OpToRel
<1>5. PICK e \in S : x = n - e
  OBVIOUS
<1>6. \A d \in S : e >= d
  <2> SUFFICES ASSUME NEW d \in S PROVE e >= d
    OBVIOUS
  <2>1. n - d \in T
    OBVIOUS
  <2>2. ~(n - d < n - e)
    BY <2>1, <1>4, <1>5
  <2> QED
    BY <2>2
<1> QED
  BY <1>6 DEF Max

LEMMA Positions ==
    ASSUME Types
    PROVE  /\ Len(exports) \in Nat /\ ExportId = 1 .. Len(exports)
           /\ exports \in [ExportId -> ExportRecord]
BY DEF Types, ExportId

\* What an update does to a row.
LEMMA UpdateFacts ==
    ASSUME NEW op \in DOMAIN May, NEW row \in ExportRecord, NEW u \in May[op]
    PROVE  LET new == Updated(op, row, u)
           IN  /\ new \in ExportRecord
               /\ new.approvedBy = IF op = "approve" THEN Lead ELSE row.approvedBy
               /\ new.status \in ClientVisible => op \in {"approve", "deliver"}
<1> DEFINE new == Updated(op, row, u)
           old == Rebuilt(row)
<1>1. op \in {"submit", "approve", "reject", "deliver"} /\ u \in User
      /\ (op = "approve" => u = Lead)
  BY DEF May, User, AlteraRole, Lead
<1>2. old \in ExportRecord /\ old.approvedBy = row.approvedBy
  <2>1. CASE Store = "memory"
    <3> DEFINE r1 == [row EXCEPT !.reviewedBy = "none"]
               r2 == [r1 EXCEPT !.deliveredBy = "none"]
               r3 == [r2 EXCEPT !.downloads = 0]
    <3>1. r1 \in ExportRecord /\ r1.approvedBy = row.approvedBy
      BY DEF ExportRecord, User
    <3> HIDE DEF r1
    <3>2. r2 \in ExportRecord /\ r2.approvedBy = row.approvedBy
      BY <3>1 DEF ExportRecord, User
    <3> HIDE DEF r2
    <3>3. r3 \in ExportRecord /\ r3.approvedBy = row.approvedBy
      BY <3>2 DEF ExportRecord
    <3> QED
      BY <2>1, <3>3 DEF Rebuilt, r1, r2
  <2>2. CASE Store # "memory"
    BY <2>2 DEF Rebuilt
  <2> QED
    BY <2>1, <2>2
<1> HIDE DEF old
<1>3. CASE op = "submit"
  <2>1. new = [row EXCEPT !.status = "under_review", !.reviewedBy = u]
    BY <1>3 DEF Updated
  <2> QED
    BY <1>1, <1>3, <2>1 DEF ExportRecord, Status, ClientVisible
<1>4. CASE op = "approve"
  <2>1. new = [old EXCEPT !.status = "approved", !.approvedBy = u]
    BY <1>4 DEF Updated, old
  <2> QED
    BY <1>1, <1>2, <1>4, <2>1 DEF ExportRecord, Status, ClientVisible
<1>5. CASE op = "reject"
  <2>1. new = [old EXCEPT !.status = "rejected", !.rejectedBy = u]
    BY <1>5 DEF Updated, old
  <2> QED
    BY <1>1, <1>2, <1>5, <2>1 DEF ExportRecord, Status, ClientVisible
<1>6. CASE op = "deliver"
  <2>1. new = [row EXCEPT !.status = "delivered", !.deliveredBy = u]
    BY <1>6 DEF Updated
  <2> QED
    BY <1>1, <1>6, <2>1 DEF ExportRecord, Status, ClientVisible
<1> QED
  BY <1>1, <1>3, <1>4, <1>5, <1>6

\* A request goes on, or ends, and the exports and the log stay.
LEMMA RequestStep ==
    ASSUME IInv, NEW w \in Worker, NEW next, NEW r \in Requests,
           next \in {"idle", "write", "count", "recount", "audit", "sign"},
           Goto(w, next, r),
           next # "idle" => r.export \in ExportId,
           next = "write" => r.op \in DOMAIN May /\ r.by \in May[r.op],
           next \in {"count", "recount", "sign"} => r.op = "download",
           next # "idle" /\ r.op \in {"deliver", "download"} =>
                exports[r.export].approvedBy = Lead,
           deaths' \in Nat, deaths' = 0 => deaths = 0,
           deaths' = 0 => ~(pc[w] = "audit" /\ req[w].op = "approve"),
           UNCHANGED <<exports, audit, given>>
    PROVE  IInv'
<1>1. /\ pc' = [pc EXCEPT ![w] = next] /\ req' = [req EXCEPT ![w] = r]
      /\ pc \in [Worker -> {"idle", "write", "audit", "count", "recount", "sign"}]
      /\ req \in [Worker -> Requests]
  BY DEF Goto, IInv, Types
<1>2. ExportId' = ExportId
  BY DEF ExportId
<1>3. Types'
  BY <1>1, <1>2 DEF IInv, Types
<1>4. RequestsFit'
  BY <1>1, <1>2 DEF IInv, RequestsFit
<1>5. ApprovedFirst'
  BY <1>1, <1>2 DEF IInv, ApprovedFirst
<1>6. ApprovalLogged'
  <2> SUFFICES ASSUME Store = "memory", deaths' = 0, NEW e \in ExportId,
                      exports[e].approvedBy = Lead, <<"approve", e>> \notin audit
               PROVE  \E v \in Worker : pc'[v] = "audit"
                        /\ req'[v].op = "approve" /\ req'[v].export = e
    BY <1>2 DEF ApprovalLogged
  <2>1. PICK v \in Worker : pc[v] = "audit"
                /\ req[v].op = "approve" /\ req[v].export = e
    BY DEF IInv, ApprovalLogged
  <2> QED
    BY <2>1, <1>1
<1> QED
  BY <1>3, <1>4, <1>5, <1>6 DEF IInv

\* One row is rewritten; its approval stays.
LEMMA RowStep ==
    ASSUME IInv, NEW w \in Worker, NEW e \in ExportId, NEW row \in ExportRecord,
           NEW r \in Requests, pc[w] \in {"write", "count", "recount"},
           r.export = req[w].export, r.op = req[w].op,
           exports' = [exports EXCEPT ![e] = row],
           Goto(w, "audit", r),
           exports[e].approvedBy = Lead => row.approvedBy = Lead,
           row.status \in ClientVisible => row.approvedBy = Lead,
           row.approvedBy = Lead =>
                exports[e].approvedBy = Lead
                    \/ (pc[w] = "write" /\ r.op = "approve" /\ r.export = e),
           UNCHANGED <<audit, given, deaths>>
    PROVE  IInv'
<1>1. /\ pc' = [pc EXCEPT ![w] = "audit"] /\ req' = [req EXCEPT ![w] = r]
      /\ pc \in [Worker -> {"idle", "write", "audit", "count", "recount", "sign"}]
      /\ req \in [Worker -> Requests]
  BY DEF Goto, IInv, Types
<1>2. /\ Len(exports) \in Nat /\ ExportId = 1 .. Len(exports)
      /\ exports \in [ExportId -> ExportRecord]
  BY Positions DEF IInv
<1>3. exports' \in [ExportId -> ExportRecord] /\ ExportId' = ExportId
  BY <1>2 DEF ExportId
<1>4. exports' \in Seq(ExportRecord)
  BY <1>2, <1>3
<1>5. Types'
  BY <1>1, <1>3, <1>4 DEF IInv, Types
<1>6. \A v \in Worker :
        /\ pc'[v] # "idle" => /\ pc[v] # "idle" /\ req'[v].op = req[v].op
                              /\ req'[v].export = req[v].export
        /\ pc'[v] \notin {"idle", "audit"} => v # w /\ pc'[v] = pc[v] /\ req'[v] = req[v]
  BY <1>1
<1>7. RequestsFit'
  BY <1>3, <1>6 DEF IInv, RequestsFit
<1>8. \A d \in ExportId : exports[d].approvedBy = Lead => exports'[d].approvedBy = Lead
  BY <1>2
<1>9. ApprovedFirst'
  <2>1. ASSUME NEW v \in Worker, pc'[v] # "idle", req'[v].op \in {"deliver", "download"}
        PROVE  exports'[req'[v].export].approvedBy = Lead
    <3>1. exports[req[v].export].approvedBy = Lead /\ req[v].export \in ExportId
      BY <1>6, <2>1 DEF IInv, ApprovedFirst, RequestsFit
    <3> QED
      BY <3>1, <1>6, <1>8, <2>1
  <2>2. ASSUME NEW d \in ExportId, exports'[d].status \in ClientVisible \/ d \in given
        PROVE  exports'[d].approvedBy = Lead
    <3>1. CASE d = e
      BY <3>1, <2>2, <1>2 DEF IInv, ApprovedFirst
    <3>2. CASE d # e
      BY <3>2, <2>2, <1>2 DEF IInv, ApprovedFirst
    <3> QED
      BY <3>1, <3>2
  <2> QED
    BY <1>3, <2>1, <2>2 DEF ApprovedFirst
<1>10. ApprovalLogged'
  <2> SUFFICES ASSUME Store = "memory", deaths = 0, NEW d \in ExportId,
                      exports'[d].approvedBy = Lead, <<"approve", d>> \notin audit
               PROVE  \E v \in Worker : pc'[v] = "audit"
                        /\ req'[v].op = "approve" /\ req'[v].export = d
    BY <1>3 DEF ApprovalLogged
  <2>1. CASE exports[d].approvedBy = Lead
    <3>1. PICK v \in Worker : pc[v] = "audit"
                /\ req[v].op = "approve" /\ req[v].export = d
      BY <2>1 DEF IInv, ApprovalLogged
    <3> QED
      BY <3>1, <1>1
  <2>2. CASE exports[d].approvedBy # Lead
    <3>1. d = e
      BY <2>2, <1>2
    <3>2. r.op = "approve" /\ r.export = d
      BY <2>2, <3>1, <1>2
    <3> QED
      BY <3>2, <1>1
  <2> QED
    BY <2>1, <2>2
<1> QED
  BY <1>5, <1>7, <1>9, <1>10 DEF IInv

-----------------------------------------------------------------------------
(* Every step keeps the invariant *)

LEMMA InitIInv == Init => IInv
<1> SUFFICES ASSUME Init PROVE IInv
  OBVIOUS
<1>1. <<>> \in Seq(ExportRecord) /\ DOMAIN <<>> = {}
  OBVIOUS
<1>2. Idle \in Requests
  BY DEF Idle, Requests, User
<1> QED
  BY <1>1, <1>2 DEF Init, IInv, Types, RequestsFit, ApprovedFirst, ApprovalLogged, ExportId

\* A request for one thing, with no more than an export.
LEMMA NewRequest ==
    ASSUME NEW op \in {"none", "generate", "download"}, NEW e \in Nat
    PROVE  /\ Idle \in Requests
           /\ [Idle EXCEPT !.op = op, !.export = e] \in Requests
           /\ [Idle EXCEPT !.op = op, !.export = e].op = op
           /\ [Idle EXCEPT !.op = op, !.export = e].export = e
<1>1. Idle \in Requests
  BY DEF Idle, Requests, User
<1> QED
  BY <1>1 DEF Requests

LEMMA RenderStep == ASSUME IInv, NEW w \in Worker, Render(w) PROVE IInv'
<1> DEFINE n == Len(exports) + 1
<1>1. PICK f \in Format :
        /\ exports' = Append(exports, Draft(f))
        /\ Goto(w, "audit", [Idle EXCEPT !.op = "generate", !.export = n])
  BY DEF Render
<1> DEFINE r == [Idle EXCEPT !.op = "generate", !.export = n]
<1>2. /\ Len(exports) \in Nat /\ ExportId = 1 .. Len(exports)
      /\ exports \in [ExportId -> ExportRecord] /\ exports \in Seq(ExportRecord)
  BY Positions DEF IInv, Types
<1>3. /\ Draft(f) \in ExportRecord /\ Draft(f).approvedBy # Lead
      /\ Draft(f).status \notin ClientVisible
  BY DEF Draft, ExportRecord, Status, User, ClientVisible, Lead
<1>4. /\ exports' \in Seq(ExportRecord) /\ ExportId' = 1 .. n
      /\ exports'[n] = Draft(f)
      /\ \A k \in 1 .. Len(exports) : exports'[k] = exports[k]
  BY <1>1, <1>2, <1>3 DEF ExportId
<1>5. ExportId' = ExportId \cup {n} /\ n \notin ExportId /\ n \in Nat
  BY <1>2, <1>4
<1>6. r \in Requests /\ r.op = "generate" /\ r.export = n
  BY <1>5, NewRequest
<1>7. /\ pc' = [pc EXCEPT ![w] = "audit"] /\ req' = [req EXCEPT ![w] = r]
      /\ pc \in [Worker -> {"idle", "write", "audit", "count", "recount", "sign"}]
      /\ req \in [Worker -> Requests] /\ pc[w] = "idle"
      /\ UNCHANGED <<audit, given, deaths>>
  BY <1>1 DEF Goto, IInv, Types, Render
<1> HIDE DEF r, n
<1>8. \A v \in Worker : pc'[v] # "idle" =>
        \/ v = w /\ req'[v] = r /\ pc'[v] = "audit"
        \/ pc'[v] = pc[v] /\ req'[v] = req[v]
  BY <1>7
<1>9. Types'
  BY <1>4, <1>5, <1>6, <1>7 DEF IInv, Types
<1>10. RequestsFit'
  BY <1>5, <1>6, <1>8 DEF IInv, RequestsFit
<1>11. ApprovedFirst'
  <2>1. \A v \in Worker : pc'[v] # "idle" /\ req'[v].op \in {"deliver", "download"} =>
            exports'[req'[v].export].approvedBy = Lead
    BY <1>2, <1>4, <1>6, <1>8 DEF IInv, ApprovedFirst, RequestsFit
  <2>2. \A e \in ExportId' : exports'[e].status \in ClientVisible \/ e \in given =>
            exports'[e].approvedBy = Lead
    BY <1>2, <1>3, <1>4, <1>5 DEF IInv, Types, ApprovedFirst
  <2> QED
    BY <2>1, <2>2, <1>7 DEF ApprovedFirst
<1>12. ApprovalLogged'
  <2> SUFFICES ASSUME Store = "memory", deaths = 0, NEW e \in ExportId',
                      exports'[e].approvedBy = Lead, <<"approve", e>> \notin audit
               PROVE  \E v \in Worker : pc'[v] = "audit"
                        /\ req'[v].op = "approve" /\ req'[v].export = e
    BY <1>7 DEF ApprovalLogged
  <2>1. e \in ExportId /\ exports[e].approvedBy = Lead
    BY <1>2, <1>3, <1>4, <1>5
  <2>2. PICK v \in Worker : pc[v] = "audit"
                /\ req[v].op = "approve" /\ req[v].export = e
    BY <2>1 DEF IInv, ApprovalLogged
  <2> QED
    BY <2>2, <1>7
<1> QED
  BY <1>9, <1>10, <1>11, <1>12 DEF IInv

LEMMA ReadStep == ASSUME IInv, NEW w \in Worker, ReadExport(w) PROVE IInv'
<1>1. PICK e \in ExportId, op \in DOMAIN May : \E u \in May[op] :
        /\ Allowed(op, exports[e])
        /\ Goto(w, "write", [Idle EXCEPT !.op = op, !.export = e, !.by = u])
  BY DEF ReadExport
<1>2. PICK u \in May[op] :
        /\ Allowed(op, exports[e])
        /\ Goto(w, "write", [Idle EXCEPT !.op = op, !.export = e, !.by = u])
  BY <1>1
<1> DEFINE r == [Idle EXCEPT !.op = op, !.export = e, !.by = u]
<1>3. /\ op \in {"submit", "approve", "reject", "deliver"} /\ u \in User
      /\ e \in Nat
  BY Positions DEF May, User, AlteraRole, IInv
<1>4. Idle \in Requests
  BY DEF Idle, Requests, User
<1> HIDE DEF Idle
<1>5. r \in Requests /\ r.op = op /\ r.export = e /\ r.by = u
  BY <1>3, <1>4 DEF Requests
<1>6. op = "deliver" => exports[e].approvedBy = Lead
  BY <1>2 DEF Allowed, IInv, ApprovedFirst, ClientVisible
<1>7. /\ pc[w] = "idle" /\ UNCHANGED <<exports, audit, given, deaths>>
      /\ deaths' \in Nat
  BY DEF ReadExport, IInv, Types
<1>8. op # "download"
  BY <1>3
<1> HIDE DEF r
<1> QED
  BY <1>2, <1>5, <1>6, <1>7, <1>8, RequestStep DEF r

LEMMA WriteStep == ASSUME IInv, NEW w \in Worker, WriteExport(w) PROVE IInv'
<1> DEFINE r == req[w]
           e == r.export
           row == Updated(r.op, exports[e], r.by)
<1>1. /\ pc[w] = "write" /\ exports' = [exports EXCEPT ![e] = row]
      /\ Goto(w, "audit", r) /\ UNCHANGED <<audit, given, deaths>>
  BY DEF WriteExport
<1>2. /\ r \in Requests /\ e \in ExportId /\ exports[e] \in ExportRecord
      /\ r.op \in DOMAIN May /\ r.by \in May[r.op]
  BY <1>1, Positions DEF IInv, Types, RequestsFit
<1>3. /\ row \in ExportRecord
      /\ row.approvedBy = IF r.op = "approve" THEN Lead ELSE exports[e].approvedBy
      /\ row.status \in ClientVisible => r.op \in {"approve", "deliver"}
  BY <1>2, UpdateFacts
<1>4. r.op = "deliver" => exports[e].approvedBy = Lead
  BY <1>1 DEF IInv, ApprovedFirst
<1> HIDE DEF row
<1> QED
  BY <1>1, <1>2, <1>3, <1>4, RowStep

LEMMA CountStep ==
    ASSUME IInv, NEW w \in Worker, CountInMemory(w) \/ CountWrite(w)
    PROVE  IInv'
<1> DEFINE e == req[w].export
<1>1. PICK k \in Nat, r \in Requests :
        /\ exports' = [exports EXCEPT ![e].downloads = k]
        /\ Goto(w, "audit", r) /\ r.export = e /\ r.op = req[w].op
        /\ pc[w] \in {"count", "recount"}
        /\ UNCHANGED <<audit, given, deaths>>
  <2>1. req[w] \in Requests
    BY DEF IInv, Types
  <2>2. CASE CountInMemory(w)
    <3>1. e \in ExportId /\ exports[e] \in ExportRecord
      BY <2>2, Positions DEF CountInMemory, IInv, RequestsFit
    <3>2. exports[e].downloads + 1 \in Nat
      BY <3>1 DEF ExportRecord
    <3> QED
      BY <2>1, <2>2, <3>2 DEF CountInMemory
  <2>3. CASE CountWrite(w)
    <3> DEFINE r == [req[w] EXCEPT !.seen = 0]
    <3>1. r \in Requests /\ r.export = e /\ r.op = req[w].op /\ req[w].seen + 1 \in Nat
      BY <2>1 DEF Requests
    <3> QED
      BY <2>3, <3>1 DEF CountWrite
  <2> QED
    BY <2>2, <2>3
<1> DEFINE row == [exports[e] EXCEPT !.downloads = k]
<1>2. e \in ExportId /\ exports[e] \in ExportRecord
  BY <1>1, Positions DEF IInv, RequestsFit
<1>3. /\ row \in ExportRecord /\ row.approvedBy = exports[e].approvedBy
      /\ row.status = exports[e].status
  BY <1>2 DEF ExportRecord
<1>4. exports' = [exports EXCEPT ![e] = row]
  BY <1>1
<1>5. row.status \in ClientVisible => row.approvedBy = Lead
  BY <1>2, <1>3 DEF IInv, ApprovedFirst
<1> HIDE DEF row
<1> QED
  BY <1>1, <1>2, <1>3, <1>4, <1>5, RowStep

LEMMA CountReadStep == ASSUME IInv, NEW w \in Worker, CountRead(w) PROVE IInv'
<1> DEFINE e == req[w].export
           r == [req[w] EXCEPT !.seen = exports[e].downloads]
<1>1. /\ pc[w] = "count" /\ UNCHANGED <<exports, audit, given, deaths>>
      /\ req[w] \in Requests /\ e \in ExportId /\ req[w].op = "download"
      /\ exports[e].approvedBy = Lead /\ deaths' \in Nat
  BY DEF CountRead, IInv, Types, RequestsFit, ApprovedFirst
<1>2. exports[e].downloads \in Nat
  BY <1>1, Positions DEF IInv, ExportRecord
<1>3. r \in Requests /\ r.export = e /\ r.op = "download"
  BY <1>1, <1>2 DEF Requests
<1>4. Goto(w, "recount", r) \/ Goto(w, "audit", req[w])
  BY DEF CountRead
<1> HIDE DEF r
<1> QED
  BY <1>1, <1>3, <1>4, RequestStep

LEMMA AuditStep == ASSUME IInv, NEW w \in Worker, AppendAudit(w) PROVE IInv'
<1>1. PICK next \in {"sign", "idle"}, r \in {req[w], Idle} :
        /\ Goto(w, next, r)
        /\ next = "sign" => r = req[w] /\ req[w].op = "download"
  BY DEF AppendAudit
<1>2. /\ pc[w] = "audit" /\ UNCHANGED <<exports, given, deaths>>
      /\ audit' = audit \cup Logged(req[w])
  BY DEF AppendAudit
<1>3. /\ pc' = [pc EXCEPT ![w] = next] /\ req' = [req EXCEPT ![w] = r]
      /\ pc \in [Worker -> {"idle", "write", "audit", "count", "recount", "sign"}]
      /\ req \in [Worker -> Requests] /\ r \in Requests /\ ExportId' = ExportId
  <2>1. Idle \in Requests
    BY NewRequest
  <2>2. req[w] \in Requests
    BY DEF IInv, Types
  <2> HIDE DEF Idle
  <2>3. r \in Requests
    BY <1>1, <2>1, <2>2
  <2> QED
    BY <1>1, <1>2, <2>3 DEF Goto, IInv, Types, ExportId
<1>4. Types' /\ RequestsFit' /\ ApprovedFirst'
  BY <1>1, <1>2, <1>3 DEF IInv, Types, RequestsFit, ApprovedFirst
<1>5. ApprovalLogged'
  <2> SUFFICES ASSUME Store = "memory", deaths = 0, NEW e \in ExportId,
                      exports[e].approvedBy = Lead, <<"approve", e>> \notin audit'
               PROVE  \E v \in Worker : pc'[v] = "audit"
                        /\ req'[v].op = "approve" /\ req'[v].export = e
    BY <1>2, <1>3 DEF ApprovalLogged
  <2>1. PICK v \in Worker : pc[v] = "audit"
                /\ req[v].op = "approve" /\ req[v].export = e
    BY <1>2 DEF IInv, ApprovalLogged
  <2>2. v # w
    BY <2>1, <1>2 DEF Logged
  <2> QED
    BY <2>1, <2>2, <1>3
<1> QED
  BY <1>4, <1>5 DEF IInv

LEMMA SignStep == ASSUME IInv, NEW w \in Worker, SignUrl(w) PROVE IInv'
<1> DEFINE e == req[w].export
<1>1. /\ pc[w] = "sign" /\ given' = given \cup {e} /\ UNCHANGED <<exports, audit, deaths>>
      /\ e \in ExportId /\ exports[e].approvedBy = Lead
      /\ pc' = [pc EXCEPT ![w] = "idle"] /\ req' = [req EXCEPT ![w] = Idle]
      /\ pc \in [Worker -> {"idle", "write", "audit", "count", "recount", "sign"}]
      /\ req \in [Worker -> Requests] /\ Idle \in Requests /\ ExportId' = ExportId
  BY NewRequest DEF SignUrl, Goto, IInv, Types, RequestsFit, ApprovedFirst, ExportId
<1>2. Types' /\ RequestsFit' /\ ApprovedFirst'
  BY <1>1 DEF IInv, Types, RequestsFit, ApprovedFirst
<1>3. ApprovalLogged'
  <2> SUFFICES ASSUME Store = "memory", deaths = 0, NEW d \in ExportId,
                      exports[d].approvedBy = Lead, <<"approve", d>> \notin audit
               PROVE  \E v \in Worker : pc'[v] = "audit"
                        /\ req'[v].op = "approve" /\ req'[v].export = d
    BY <1>1 DEF ApprovalLogged
  <2>1. PICK v \in Worker : pc[v] = "audit"
                /\ req[v].op = "approve" /\ req[v].export = d
    BY <1>1 DEF IInv, ApprovalLogged
  <2> QED
    BY <2>1, <1>1
<1> QED
  BY <1>2, <1>3 DEF IInv

LEMMA NextIInv == IInv /\ [Next]_vars => IInv'
<1> SUFFICES ASSUME IInv, [Next]_vars PROVE IInv'
  OBVIOUS
<1>1. ASSUME NEW w \in Worker, DownloadRead(w) PROVE IInv'
  <2>1. PICK f \in Format :
            /\ Available(f) # {}
            /\ Goto(w, "count", [Idle EXCEPT !.op = "download", !.export = Max(Available(f))])
    BY <1>1 DEF DownloadRead
  <2> DEFINE e == Max(Available(f))
             r == [Idle EXCEPT !.op = "download", !.export = e]
  <2>2. e \in Available(f)
    <3>1. Available(f) \in SUBSET (1 .. Len(exports)) /\ Len(exports) \in Nat
      BY Positions DEF IInv, Available
    <3> QED
      BY <2>1, <3>1, LastOne
  <2>3. e \in ExportId /\ e \in Nat /\ exports[e].approvedBy = Lead
    BY <2>2, Positions DEF Available, IInv, ApprovedFirst
  <2> HIDE DEF e
  <2>4. r \in Requests /\ r.op = "download" /\ r.export = e
    BY <2>3, NewRequest
  <2>5. /\ pc[w] = "idle" /\ UNCHANGED <<exports, audit, given, deaths>>
        /\ deaths' \in Nat
    BY <1>1 DEF DownloadRead, IInv, Types
  <2>6. Goto(w, "count", r)
    BY <2>1 DEF e
  <2> HIDE DEF r
  <2> QED
    BY <2>3, <2>4, <2>5, <2>6, RequestStep
<1>2. ASSUME NEW w \in Worker, Die(w) PROVE IInv'
  <2>1. /\ Goto(w, "idle", Idle) /\ deaths' = deaths + 1 /\ deaths \in Nat
        /\ UNCHANGED <<exports, audit, given>> /\ Idle \in Requests
    BY <1>2, NewRequest DEF Die, IInv, Types
  <2>2. deaths' \in Nat /\ deaths' # 0
    BY <2>1
  <2> QED
    BY <2>1, <2>2, RequestStep
<1>3. CASE UNCHANGED vars
  BY <1>3 DEF vars, IInv, Types, RequestsFit, ApprovedFirst, ApprovalLogged, ExportId
<1> QED
  BY <1>1, <1>2, <1>3, RenderStep, ReadStep, WriteStep, AuditStep, CountStep,
     CountReadStep, SignStep DEF Next

LEMMA Invariance == Spec => []IInv
BY InitIInv, NextIInv, PTL DEF Spec

-----------------------------------------------------------------------------
(* Theorems *)

\* No client ever sees or is given an export that the methodology lead has not
\* approved, however reviews, deliveries and downloads of it overlap.
THEOREM OnlyApprovedLeaves == Spec => []ClientsGetApproved
<1>1. IInv => ClientsGetApproved
  BY DEF IInv, ApprovedFirst, ClientsGetApproved, Lead
<1> QED
  BY <1>1, Invariance, PTL

\* In memory, and unless a request dies, every delivered export has its approval
\* in the audit log.
THEOREM DeliveriesAreTraceable == Spec => []DeliveryIsTraceable
<1>1. IInv => DeliveryIsTraceable
  <2> SUFFICES ASSUME IInv, Store = "memory", deaths = 0, NEW e \in ExportId,
                      exports[e].status = "delivered"
               PROVE  \/ <<"approve", e>> \in audit
                      \/ \E w \in Worker : pc[w] = "audit"
                            /\ req[w].op = "approve" /\ req[w].export = e
    BY DEF DeliveryIsTraceable
  <2>1. exports[e].approvedBy = Lead
    BY DEF IInv, ApprovedFirst, ClientVisible
  <2> QED
    BY <2>1 DEF IInv, ApprovalLogged
<1> QED
  BY <1>1, Invariance, PTL
=============================================================================

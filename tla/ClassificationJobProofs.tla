---------------------- MODULE ClassificationJobProofs ----------------------
(***************************************************************************)
(* Proofs about ClassificationJob, for any number of products, job rows    *)
(* and concurrent requests; and for one request at a time, that its jobs   *)
(* implement JobLifecycle.                                                 *)
(***************************************************************************)
EXTENDS ClassificationJob, FiniteSetTheorems, SequenceTheorems, TLAPS

-----------------------------------------------------------------------------
(* Lemmas about lists *)

\* An empty list mentions nothing and repeats nothing.
LEMMA EmptyList ==
    /\ <<>> \in Seq(Product)
    /\ Len(<<>>) = 0
    /\ Range(<<>>) = {}
    /\ IsInjective(<<>>)
BY DEF Range, IsInjective

\* The elements of a list, by position.
LEMMA ListRange ==
    ASSUME NEW s \in Seq(Product)
    PROVE  Range(s) = {s[i] : i \in 1 .. Len(s)}
BY DEF Range

\* Taking the head off a list.
LEMMA HeadAndTail ==
    ASSUME NEW s \in Seq(Product), s # <<>>
    PROVE  /\ Head(s) \in Product
           /\ Head(s) \in Range(s)
           /\ Tail(s) \in Seq(Product)
           /\ Range(s) = {Head(s)} \cup Range(Tail(s))
           /\ Len(s) = 1 <=> Tail(s) = <<>>
<1>1. /\ Len(s) \in Nat \ {0}
      /\ Head(s) = s[1]
      /\ Tail(s) \in Seq(Product)
      /\ Len(Tail(s)) = Len(s) - 1
      /\ \A i \in 1 .. Len(s) - 1 : Tail(s)[i] = s[i + 1]
  OBVIOUS
<1>2. Range(s) \subseteq {Head(s)} \cup Range(Tail(s))
  <2> SUFFICES ASSUME NEW i \in 1 .. Len(s)
               PROVE  s[i] \in {Head(s)} \cup Range(Tail(s))
    BY DEF Range
  <2>1. CASE i = 1
    BY <2>1, <1>1
  <2>2. CASE i # 1
    <3> DEFINE t == Tail(s)
    <3>1. i - 1 \in 1 .. Len(t) /\ t[i - 1] = s[i]
      BY <2>2, <1>1
    <3>2. Range(t) = {t[k] : k \in 1 .. Len(t)}
      BY <1>1, ListRange
    <3> HIDE DEF t
    <3>3. s[i] \in Range(t)
      BY <3>1, <3>2
    <3> QED
      BY <3>3 DEF t
  <2> QED
    BY <2>1, <2>2
<1>3. {Head(s)} \cup Range(Tail(s)) \subseteq Range(s)
  <2> DEFINE t == Tail(s)
  <2>1. Range(t) = {t[k] : k \in 1 .. Len(t)}
    BY <1>1, ListRange
  <2>2. Range(s) = {s[i] : i \in 1 .. Len(s)}
    BY ListRange
  <2>3. ASSUME NEW k \in 1 .. Len(t)
        PROVE  k + 1 \in 1 .. Len(s) /\ t[k] = s[k + 1]
    BY <1>1
  <2>4. 1 \in 1 .. Len(s) /\ Head(s) = s[1]
    BY <1>1
  <2> HIDE DEF t
  <2>5. Range(t) \subseteq Range(s)
    BY <2>1, <2>2, <2>3
  <2> QED
    BY <2>2, <2>4, <2>5 DEF t
<1>4. Len(s) = 1 <=> Tail(s) = <<>>
  <2> DEFINE t == Tail(s)
  <2>1. t \in Seq(Product) /\ (Len(s) = 1 <=> Len(t) = 0)
    BY <1>1
  <2> HIDE DEF t
  <2>2. t = <<>> <=> Len(t) = 0
    BY <2>1, EmptySeq
  <2> QED
    BY <2>1, <2>2 DEF t
<1> QED
  BY <1>1, <1>2, <1>3, <1>4

\* A list without repetitions is as long as the set of its elements is large.
LEMMA ListCardinality ==
    ASSUME NEW s \in Seq(Product), IsInjective(s)
    PROVE  Cardinality(Range(s)) = Len(s)
<1>1. s \in Bijection(1 .. Len(s), Range(s))
  <2>1. s \in [1 .. Len(s) -> Range(s)]
    BY DEF Range
  <2>2. \A t \in Range(s) : \E i \in 1 .. Len(s) : s[i] = t
    BY DEF Range
  <2> QED
    BY <2>1, <2>2 DEF Bijection, Injection, Surjection
<1>2. ExistsBijection(1 .. Len(s), Range(s))
  BY <1>1 DEF ExistsBijection
<1> QED
  BY <1>2, FS_CountingElements

\* Every ordering of a set of products is a list of exactly that set.
LEMMA OrderingIsList ==
    ASSUME NEW S \in SUBSET Product, NEW s \in Orderings(S)
    PROVE  s \in Seq(Product) /\ IsInjective(s)
<1>1. IsFiniteSet(S)
  BY ConstantsAssumption, FS_Subset
<1>2. Cardinality(S) \in Nat
  BY <1>1, FS_CardinalityType
<1>3. s \in [1 .. Cardinality(S) -> S] /\ IsInjective(s)
  BY DEF Orderings, Injection
<1>4. s \in [1 .. Cardinality(S) -> Product]
  BY <1>3
<1> QED
  BY <1>2, <1>3, <1>4

\* Cutting a list in two keeps every element, and repeats none that was not
\* repeated before.
LEMMA Cut ==
    ASSUME NEW s \in Seq(Product), NEW m \in 0 .. Len(s)
    PROVE  \A a, b : a = SubSeq(s, 1, m) /\ b = SubSeq(s, m + 1, Len(s)) =>
           /\ a \in Seq(Product) /\ Len(a) = m
           /\ b \in Seq(Product) /\ Len(b) = Len(s) - m
           /\ Range(s) = Range(a) \cup Range(b)
           /\ IsInjective(s) =>
                IsInjective(a) /\ IsInjective(b) /\ Range(a) \cap Range(b) = {}
<1> SUFFICES ASSUME NEW a, a = SubSeq(s, 1, m),
                    NEW b, b = SubSeq(s, m + 1, Len(s))
             PROVE  /\ a \in Seq(Product) /\ Len(a) = m
                    /\ b \in Seq(Product) /\ Len(b) = Len(s) - m
                    /\ Range(s) = Range(a) \cup Range(b)
                    /\ IsInjective(s) =>
                         /\ IsInjective(a) /\ IsInjective(b)
                         /\ Range(a) \cap Range(b) = {}
  OBVIOUS
<1>1. /\ a \in Seq(Product) /\ Len(a) = m
      /\ \A i \in 1 .. m : a[i] = s[i]
  BY SubSeqProperties
<1>2. /\ b \in Seq(Product) /\ Len(b) = Len(s) - m
      /\ \A i \in 1 .. Len(s) - m : b[i] = s[m + i]
  <2>1. b \in Seq(Product) /\ Len(b) = Len(s) - m
    BY SubSeqProperties
  <2>2. \A i \in 1 .. Len(s) - (m + 1) + 1 : b[i] = s[(m + 1) + i - 1]
    BY SubSeqProperties
  <2> QED
    BY <2>1, <2>2
<1>3. /\ Range(a) = {a[i] : i \in 1 .. m}
      /\ Range(b) = {b[i] : i \in 1 .. Len(s) - m}
      /\ Range(s) = {s[i] : i \in 1 .. Len(s)}
  BY <1>1, <1>2, ListRange
<1>4. Range(s) = Range(a) \cup Range(b)
  <2>1. ASSUME NEW i \in 1 .. Len(s)
        PROVE  s[i] \in Range(a) \cup Range(b)
    <3>1. CASE i <= m
      BY <3>1, <1>1, <1>3
    <3>2. CASE i > m
      <4>1. i - m \in 1 .. Len(s) - m /\ b[i - m] = s[i]
        BY <3>2, <1>2
      <4> QED
        BY <4>1, <1>3
    <3> QED
      BY <3>1, <3>2
  <2>2. Range(a) \subseteq Range(s)
    BY <1>1, <1>3
  <2>3. ASSUME NEW i \in 1 .. Len(s) - m
        PROVE  b[i] \in Range(s)
    <3>1. m + i \in 1 .. Len(s) /\ b[i] = s[m + i]
      BY <1>2
    <3> QED
      BY <3>1, <1>3
  <2> QED
    BY <2>1, <2>2, <2>3, <1>3
<1>5. ASSUME IsInjective(s)
      PROVE  IsInjective(a) /\ IsInjective(b) /\ Range(a) \cap Range(b) = {}
  <2>1. \A i, k \in 1 .. Len(s) : s[i] = s[k] => i = k
    BY <1>5 DEF IsInjective
  <2>2. \A i, k \in 1 .. m : a[i] = a[k] => i = k
    BY <2>1, <1>1
  <2>3. ASSUME NEW i \in 1 .. Len(s) - m, NEW k \in 1 .. Len(s) - m, b[i] = b[k]
        PROVE  i = k
    <3>1. m + i = m + k
      BY <2>1, <2>3, <1>2
    <3> QED
      BY <3>1
  <2>4. ASSUME NEW i \in 1 .. m, NEW k \in 1 .. Len(s) - m, a[i] = b[k]
        PROVE  FALSE
    <3>1. i = m + k
      BY <2>1, <2>4, <1>1, <1>2
    <3> QED
      BY <3>1
  <2>5. IsInjective(a)
    BY <2>2, <1>1 DEF IsInjective
  <2>6. IsInjective(b)
    <3>1. DOMAIN b = 1 .. Len(s) - m
      BY <1>2
    <3> QED
      BY <2>3, <3>1 DEF IsInjective
  <2>7. Range(a) \cap Range(b) = {}
    BY <2>4, <1>3
  <2> QED
    BY <2>5, <2>6, <2>7
<1> QED
  BY <1>1, <1>2, <1>4, <1>5

\* What one batch takes from the pending list of a row, and what it leaves.
LEMMA Slicing ==
    ASSUME NEW row \in Job
    PROVE  /\ Chunk(row) \in Seq(Product)
           /\ Remaining(row) \in Seq(Product)
           /\ Len(Chunk(row)) \in Nat
           /\ Len(Chunk(row)) + Len(Remaining(row)) = Len(row.pending)
           /\ Range(row.pending) = Range(Chunk(row)) \cup Range(Remaining(row))
           /\ IsInjective(row.pending) =>
                /\ IsInjective(Remaining(row))
                /\ Range(Chunk(row)) \cap Range(Remaining(row)) = {}
           /\ row.pending = <<>> <=> Chunk(row) = <<>>
<1>1. row.pending \in Seq(Product) /\ row.batch \in Nat /\ MaxBatch \in Nat \ {0}
  BY ConstantsAssumption DEF Job
<1>2. Take(row) \in 0 .. Len(row.pending) /\ (Len(row.pending) # 0 => Take(row) # 0)
  BY <1>1, LenProperties DEF Take
<1>3. \A a, b : a = Chunk(row) /\ b = Remaining(row) =>
        /\ a \in Seq(Product) /\ Len(a) = Take(row)
        /\ b \in Seq(Product) /\ Len(b) = Len(row.pending) - Take(row)
        /\ Range(row.pending) = Range(a) \cup Range(b)
        /\ IsInjective(row.pending) =>
             IsInjective(a) /\ IsInjective(b) /\ Range(a) \cap Range(b) = {}
  BY <1>1, <1>2, Cut, Zenon DEF Chunk, Remaining
<1>4. row.pending = <<>> <=> Chunk(row) = <<>>
  BY <1>1, <1>2, <1>3, EmptySeq
<1>5. /\ Len(Chunk(row)) \in Nat
      /\ Len(Chunk(row)) + Len(Remaining(row)) = Len(row.pending)
  BY <1>1, <1>2, <1>3, LenProperties
<1> QED
  BY <1>3, <1>4, <1>5

-----------------------------------------------------------------------------
(* Lemmas about rows *)

\* A row stays sound when more products get a classification row.
LEMMA RowInvGrows ==
    ASSUME NEW row, NEW items, NEW done, NEW more,
           RowInv(row, items, done), done \subseteq more
    PROVE  RowInv(row, items, more)
BY DEF RowInv

\* A row that is inserted with a duplicate-free list is sound for that list.
LEMMA NewRowInv ==
    ASSUME NEW s \in Seq(Product), IsInjective(s), NEW b \in Nat, NEW done,
           NEW st \in {"queued", "completed"}, st = "completed" => s = <<>>
    PROVE  /\ NewJob(st, s, b) \in Job
           /\ NewJob(st, s, b).status # "absent"
           /\ NewJob(st, s, b).pending = s
           /\ Range(s) \in SUBSET Product
           /\ RowInv(NewJob(st, s, b), Range(s), done)
<1>1. Range(s) \in SUBSET Product
  BY ListRange
<1>2. Cardinality(Range(s)) = Len(s)
  BY ListCardinality
<1>3. Len(s) \in Nat
  BY LenProperties
<1> DEFINE new == NewJob(st, s, b)
<1>4. new \in Job /\ new.status # "absent" /\ new.pending = s
  BY <1>3 DEF NewJob, Job, Active, Terminal, Completed
<1>5. RowInv(new, Range(s), done)
  BY <1>2, <1>3 DEF NewJob, RowInv, Completed
<1> QED
  BY <1>1, <1>4, <1>5

\* Changing the status of an active row, and nothing else, to anything but a
\* completed one keeps it sound.
LEMMA StatusRowInv ==
    ASSUME NEW row \in Job, NEW items, NEW done, RowInv(row, items, done),
           row.status \in Active, NEW st \in {"running", "failed", "cancelled"}
    PROVE  /\ [row EXCEPT !.status = st] \in Job
           /\ [row EXCEPT !.status = st].status # "absent"
           /\ RowInv([row EXCEPT !.status = st], items, done)
BY DEF Job, RowInv, Active, Terminal, Completed

\* Cancelling an active row keeps it sound.
LEMMA CancelRowInv ==
    ASSUME NEW row \in Job, NEW items, NEW done, RowInv(row, items, done)
    PROVE  LET new == [row EXCEPT !.status = "cancelled", !.cancelRequested = TRUE]
           IN  new \in Job /\ new.status # "absent" /\ RowInv(new, items, done)
BY DEF Job, RowInv, Active, Terminal, Completed

\* A finished batch keeps the row sound once every product of the chunk has a
\* classification row.
LEMMA BatchRowInv ==
    ASSUME NEW row \in Job, NEW items \in SUBSET Product, NEW done,
           RowInv(row, items, done), row.status \in Active,
           Range(Chunk(row)) \subseteq done,
           NEW ids \in SUBSET Product, ids \subseteq Range(Chunk(row)),
           NEW errors \in BOOLEAN
    PROVE  LET new == AfterBatch(row, ids, errors)
           IN  new \in Job /\ new.status # "absent" /\ RowInv(new, items, done)
<1> DEFINE st == StatusAfter(row, errors)
           rest == Remaining(row)
           chunk == Chunk(row)
           new == AfterBatch(row, ids, errors)
<1>1. /\ st \in {"running"} \cup Completed
      /\ st \in Completed => rest = <<>>
  BY DEF StatusAfter, Completed
<1>2. /\ chunk \in Seq(Product) /\ rest \in Seq(Product) /\ Len(chunk) \in Nat
      /\ Len(chunk) + Len(rest) = Len(row.pending)
      /\ Range(row.pending) = Range(chunk) \cup Range(rest)
      /\ IsInjective(rest) /\ Range(chunk) \cap Range(rest) = {}
  BY Slicing DEF RowInv
<1>3. /\ new = [row EXCEPT !.status = st, !.pending = rest,
                           !.processed = row.processed + Len(chunk),
                           !.failed = row.failed \cup ids]
      /\ row.processed \in Nat /\ row.total \in Nat /\ Len(row.pending) \in Nat
  BY LenProperties DEF AfterBatch, Job
<1> HIDE DEF st, rest, chunk, new
<1>4. new \in Job /\ new.status # "absent"
  <2>1. st \in Active \cup Terminal \cup {"absent"} /\ st # "absent"
    BY <1>1 DEF Active, Terminal, Completed
  <2>2. row.processed + Len(chunk) \in Nat /\ row.failed \cup ids \in SUBSET Product
    BY <1>2, <1>3 DEF Job
  <2> QED
    BY <2>1, <2>2, <1>2, <1>3 DEF Job
<1>5. Len(rest) \in Nat
  BY <1>2, LenProperties
<1>6. new.processed + Len(new.pending) = new.total
  <2>1. /\ new.processed = row.processed + Len(chunk)
        /\ new.pending = rest /\ new.total = row.total
    BY <1>3 DEF Job
  <2>2. row.processed + Len(row.pending) = row.total
    BY DEF RowInv
  <2> QED
    BY <2>1, <2>2, <1>2, <1>3, <1>5
<1>7. /\ new.pending = rest /\ new.total = row.total /\ new.status = st
      /\ new.failed = row.failed \cup ids
      /\ new.cancelRequested = row.cancelRequested
  BY <1>3 DEF Job
<1>8. /\ Range(rest) \subseteq items
      /\ items \ Range(rest) \subseteq done
      /\ row.failed \cup ids \subseteq items \ Range(rest)
  BY <1>2 DEF RowInv, chunk
<1>9. RowInv(new, items, done)
  BY <1>1, <1>2, <1>6, <1>7, <1>8 DEF RowInv, Active
<1> QED
  BY <1>4, <1>9 DEF new

-----------------------------------------------------------------------------
(* Lemmas about steps *)

\* The state of request v is untouched by a step.
SameRequest(v) ==
    /\ pc'[v] = pc[v]
    /\ target'[v] = target[v]
    /\ snap'[v] = snap[v]
    /\ todo'[v] = todo[v]
    /\ newFailed'[v] = newFailed[v]

\* What every step does to the store: classification rows are never deleted,
\* and a row of the jobs table keeps its scope and never disappears.
StoreGrows ==
    /\ Classified \subseteq Classified'
    /\ \A j \in JobId : jobs[j].status # "absent" =>
            jobs'[j].status # "absent" /\ scope'[j] = scope[j]

RowsOK == \A j \in JobId : RowInv(jobs[j], scope[j], Classified)

\* A request that a step does not touch stays sound.
LEMMA RequestFrame ==
    ASSUME TypeOK, NEW v \in Worker, RequestInv(v), SameRequest(v), StoreGrows
    PROVE  RequestInv(v)'
<1>1. target[v] \in JobId
  BY DEF TypeOK, RequestTypeOK
<1>2. Classified \subseteq Classified'
  BY DEF StoreGrows
<1>3. pc[v] \in HoldsJob =>
        /\ jobs'[target[v]].status # "absent"
        /\ scope'[target[v]] = scope[target[v]]
  BY <1>1 DEF RequestInv, StoreGrows
<1>4. pc'[v] \in HoldsJob =>
        /\ jobs'[target'[v]].status # "absent"
        /\ snap'[v].status \in Active
        /\ RowInv(snap'[v], scope'[target'[v]], Classified')
  <2> SUFFICES ASSUME pc[v] \in HoldsJob
               PROVE  /\ snap[v].status \in Active
                      /\ RowInv(snap[v], scope[target[v]], Classified')
    BY <1>3 DEF SameRequest
  <2>1. snap[v].status \in Active /\ RowInv(snap[v], scope[target[v]], Classified)
    BY DEF RequestInv
  <2> QED
    BY <2>1, <1>2, RowInvGrows
<1>5. pc[v] = "enqueue" => cls'[Head(todo[v])] # "none"
  <2> SUFFICES ASSUME pc[v] = "enqueue" PROVE cls'[Head(todo[v])] # "none"
    OBVIOUS
  <2>1. todo[v] # <<>> /\ cls[Head(todo[v])] # "none"
    BY DEF RequestInv
  <2>2. Head(todo[v]) \in Product
    BY <2>1, HeadAndTail DEF TypeOK, RequestTypeOK
  <2> QED
    BY <2>1, <2>2, <1>2 DEF Classified
<1>6. Range(Chunk(snap[v])) \ Range(todo[v]) \subseteq Classified =>
        Range(Chunk(snap[v])) \ Range(todo[v]) \subseteq Classified'
  BY <1>2
<1> QED
  BY <1>4, <1>5, <1>6 DEF RequestInv, SameRequest

\* Leaving the jobs table alone keeps its rows sound.
LEMMA RowsFrame ==
    ASSUME RowsOK, UNCHANGED <<jobs, scope>>, Classified \subseteq Classified'
    PROVE  RowsOK' /\ StoreGrows
BY RowInvGrows DEF RowsOK, StoreGrows

\* Overwriting a row with a sound one keeps the table sound.
LEMMA WriteKeepsRows ==
    ASSUME StoreTypeOK, RowsOK, Classified' = Classified, scope' = scope,
           NEW j \in JobId, NEW row \in Job, row.status # "absent",
           RowInv(row, scope[j], Classified), Write(j, row)
    PROVE  /\ jobs' \in [JobId -> Job]
           /\ RowsOK'
           /\ StoreGrows
<1>1. /\ jobs' = [jobs EXCEPT ![j] = row]
      /\ jobs \in [JobId -> Job]
  BY DEF Write, StoreTypeOK
<1>2. \A i \in JobId : jobs'[i] = IF i = j THEN row ELSE jobs[i]
  BY <1>1
<1>3. RowsOK'
  BY <1>2 DEF RowsOK
<1>4. StoreGrows
  BY <1>2 DEF StoreGrows
<1> QED
  BY <1>1, <1>3, <1>4

\* Inserting a sound row keeps the table sound.
LEMMA InsertKeepsRows ==
    ASSUME StoreTypeOK, RowsOK, Classified' = Classified,
           NEW j \in JobId, NEW s \in Seq(Product), IsInjective(s),
           NEW b \in Nat, NEW st \in {"queued", "completed"},
           st = "completed" => s = <<>>, Insert(j, NewJob(st, s, b))
    PROVE  /\ jobs' \in [JobId -> Job] /\ scope' \in [JobId -> SUBSET Product]
           /\ RowsOK'
           /\ StoreGrows
<1> DEFINE row == NewJob(st, s, b)
<1>1. /\ row \in Job /\ row.status # "absent" /\ row.pending = s
      /\ Range(s) \in SUBSET Product
      /\ RowInv(row, Range(s), Classified)
  BY NewRowInv
<1>2. /\ jobs[j].status = "absent"
      /\ jobs' = [jobs EXCEPT ![j] = row]
      /\ scope' = [scope EXCEPT ![j] = Range(row.pending)]
      /\ jobs \in [JobId -> Job] /\ scope \in [JobId -> SUBSET Product]
  BY DEF Insert, FreeJob, Write, StoreTypeOK
<1> HIDE DEF row
<1>3. \A i \in JobId : /\ jobs'[i] = IF i = j THEN row ELSE jobs[i]
                       /\ scope'[i] = IF i = j THEN Range(s) ELSE scope[i]
  BY <1>1, <1>2
<1>4. RowsOK'
  BY <1>1, <1>3 DEF RowsOK
<1>5. StoreGrows
  BY <1>2, <1>3 DEF StoreGrows
<1> QED
  BY <1>1, <1>2, <1>4, <1>5

\* A request that has been answered holds nothing, and the others are as they
\* were.
LEMMA RespondIsSound ==
    ASSUME RequestTypeOK, NEW w \in Worker, Respond(w)
    PROVE  /\ RequestTypeOK'
           /\ RequestInv(w)'
           /\ \A v \in Worker \ {w} : SameRequest(v)
<1>1. AnyJob \in JobId
  BY ConstantsAssumption DEF AnyJob
<1>2. NoJob \in Job
  BY EmptyList DEF NoJob, NewJob, Job
<1>3. /\ pc' = [pc EXCEPT ![w] = "idle"]
      /\ target' = [target EXCEPT ![w] = AnyJob]
      /\ snap' = [snap EXCEPT ![w] = NoJob]
      /\ todo' = [todo EXCEPT ![w] = <<>>]
      /\ verdict' = [verdict EXCEPT ![w] = "accepted"]
      /\ newFailed' = [newFailed EXCEPT ![w] = {}]
      /\ sawFailed' = [sawFailed EXCEPT ![w] = FALSE]
  BY DEF Respond, Request
<1>4. RequestTypeOK'
  <2>1. pc' \in [Worker -> Pc] /\ verdict' \in [Worker -> Verdict]
    BY <1>3 DEF RequestTypeOK, Pc, Verdict
  <2>2. target' \in [Worker -> JobId] /\ snap' \in [Worker -> Job]
    BY <1>1, <1>2, <1>3 DEF RequestTypeOK
  <2>3. todo' \in [Worker -> Seq(Product)]
    BY <1>3, EmptyList DEF RequestTypeOK
  <2>4. newFailed' \in [Worker -> SUBSET Product] /\ sawFailed' \in [Worker -> BOOLEAN]
    BY <1>3 DEF RequestTypeOK
  <2> QED
    BY <2>1, <2>2, <2>3, <2>4 DEF RequestTypeOK
<1>5. pc'[w] = "idle" /\ todo'[w] = <<>> /\ newFailed'[w] = {}
  BY <1>3 DEF RequestTypeOK
<1>6. RequestInv(w)'
  BY <1>5 DEF RequestInv, HoldsJob
<1>7. \A v \in Worker \ {w} : SameRequest(v)
  BY <1>3 DEF SameRequest, RequestTypeOK
<1> QED
  BY <1>4, <1>6, <1>7

\* Assembling the invariant after a step of request w.
LEMMA Assemble ==
    ASSUME IInv, NEW w \in Worker,
           StoreTypeOK', RequestTypeOK', crashes' \in Nat,
           RowsOK', StoreGrows, RequestInv(w)',
           \A v \in Worker \ {w} : SameRequest(v)
    PROVE  IInv'
<1>1. \A v \in Worker : RequestInv(v)'
  <2>1. ASSUME NEW v \in Worker \ {w} PROVE RequestInv(v)'
    BY <2>1, RequestFrame DEF IInv
  <2> QED
    BY <2>1
<1> QED
  BY <1>1 DEF IInv, TypeOK, RowsOK

-----------------------------------------------------------------------------
(* One lemma per kind of step *)

\* The first state.
LEMMA InitSound == Init => IInv
<1> SUFFICES ASSUME Init PROVE IInv
  OBVIOUS
<1>1. AnyJob \in JobId
  BY ConstantsAssumption DEF AnyJob
<1>2. NoJob \in Job
  BY EmptyList DEF NoJob, NewJob, Job
<1>3. StoreTypeOK
  BY <1>2 DEF Init, StoreTypeOK, ClsRow, ReviewItem
<1>4. RequestTypeOK
  BY <1>1, <1>2, EmptyList DEF Init, RequestTypeOK, Pc, Verdict
<1>5. RowInv(NoJob, {}, Classified)
  <2>1. Cardinality({}) = 0
    BY FS_EmptySet
  <2> QED
    BY <2>1, EmptyList DEF RowInv, NoJob, NewJob, Completed
<1>6. \A j \in JobId : RowInv(jobs[j], scope[j], Classified)
  BY <1>5 DEF Init
<1>7. \A w \in Worker : RequestInv(w)
  BY DEF Init, RequestInv, HoldsJob
<1> QED
  BY <1>3, <1>4, <1>6, <1>7 DEF Init, IInv, TypeOK

\* A request that reads a row, and keeps a copy of it.
LEMMA ReadStep ==
    ASSUME IInv, NEW w \in Worker, NEW j \in JobId,
           AdvanceRead(w, j) \/ CancelRead(w, j) \/ RetryRead(w, j)
    PROVE  IInv'
<1>1. \E p \in {"advance", "cancel", "retry"} :
        /\ pc[w] = "idle"
        /\ p # "retry" => jobs[j].status \in Active
        /\ Request(w, p, j, jobs[j])
        /\ UNCHANGED <<storeVars, todo, verdict, newFailed, sawFailed, crashes>>
  BY DEF AdvanceRead, CancelRead, RetryRead
<1>2. PICK p \in {"advance", "cancel", "retry"} :
        /\ pc[w] = "idle"
        /\ p # "retry" => jobs[j].status \in Active
        /\ Request(w, p, j, jobs[j])
        /\ UNCHANGED <<storeVars, todo, verdict, newFailed, sawFailed, crashes>>
  BY <1>1
<1>3. /\ pc' = [pc EXCEPT ![w] = p]
      /\ target' = [target EXCEPT ![w] = j]
      /\ snap' = [snap EXCEPT ![w] = jobs[j]]
      /\ UNCHANGED <<jobs, scope, cls, review, todo, verdict, newFailed,
                     sawFailed, crashes>>
  BY <1>2 DEF Request, storeVars
<1>4. jobs[j] \in Job /\ RowInv(jobs[j], scope[j], Classified)
  BY DEF IInv, TypeOK, StoreTypeOK
<1>5. StoreTypeOK' /\ crashes' \in Nat
  BY <1>3 DEF IInv, TypeOK, StoreTypeOK
<1>6. RequestTypeOK'
  BY <1>3, <1>4 DEF IInv, TypeOK, RequestTypeOK, Pc
<1>7. RowsOK' /\ StoreGrows
  BY <1>3, RowsFrame DEF IInv, RowsOK, Classified
<1>8. \A v \in Worker \ {w} : SameRequest(v)
  BY <1>3 DEF SameRequest, IInv, TypeOK, RequestTypeOK
<1>9. RequestInv(w)'
  <2>1. pc'[w] = p /\ target'[w] = j /\ snap'[w] = jobs[j]
    BY <1>3 DEF IInv, TypeOK, RequestTypeOK
  <2>2. todo'[w] = <<>> /\ newFailed'[w] = {}
    BY <1>2, <1>3 DEF IInv, RequestInv, HoldsJob
  <2>3. Classified' = Classified /\ scope' = scope /\ jobs' = jobs
    BY <1>3 DEF Classified
  <2>4. p # "retry" => jobs[j].status # "absent"
    BY <1>2 DEF Active
  <2> QED
    BY <1>2, <1>4, <2>1, <2>2, <2>3, <2>4 DEF RequestInv, HoldsJob
<1> QED
  BY <1>5, <1>6, <1>7, <1>8, <1>9, Assemble

\* A request that is answered after overwriting the row it holds.
LEMMA WriteAndRespond ==
    ASSUME IInv, NEW w \in Worker, pc[w] \in HoldsJob, NEW row \in Job,
           row.status # "absent", RowInv(row, scope[target[w]], Classified),
           Write(target[w], row), Respond(w),
           UNCHANGED <<scope, cls, review, crashes>>
    PROVE  IInv'
<1>1. target[w] \in JobId /\ Classified' = Classified
  BY DEF IInv, TypeOK, RequestTypeOK, Classified
<1>2. jobs' \in [JobId -> Job] /\ RowsOK' /\ StoreGrows
  BY <1>1, WriteKeepsRows DEF IInv, TypeOK, RowsOK
<1>3. StoreTypeOK' /\ crashes' \in Nat
  BY <1>2 DEF IInv, TypeOK, StoreTypeOK
<1>4. /\ RequestTypeOK' /\ RequestInv(w)'
      /\ \A v \in Worker \ {w} : SameRequest(v)
  BY RespondIsSound DEF IInv, TypeOK
<1> QED
  BY <1>2, <1>3, <1>4, Assemble

\* An advance that cannot go on.
LEMMA StopStep ==
    ASSUME IInv, NEW w \in Worker, AdvanceStop(w)
    PROVE  IInv'
<1>1. /\ snap[w] \in Job /\ snap[w].status \in Active
      /\ RowInv(snap[w], scope[target[w]], Classified)
      /\ pc[w] \in HoldsJob
  BY DEF AdvanceStop, IInv, TypeOK, RequestTypeOK, RequestInv, HoldsJob
<1>2. PICK st \in {"failed", "cancelled"} :
        Write(target[w], [snap[w] EXCEPT !.status = st])
  BY DEF AdvanceStop
<1>3. /\ [snap[w] EXCEPT !.status = st] \in Job
      /\ [snap[w] EXCEPT !.status = st].status # "absent"
      /\ RowInv([snap[w] EXCEPT !.status = st], scope[target[w]], Classified)
  BY <1>1, StatusRowInv
<1>4. Respond(w) /\ UNCHANGED <<scope, cls, review, crashes>>
  BY DEF AdvanceStop
<1> QED
  BY <1>1, <1>2, <1>3, <1>4, WriteAndRespond

\* A cancel request that is carried out.
LEMMA CancelStep ==
    ASSUME IInv, NEW w \in Worker, CancelWrite(w)
    PROVE  IInv'
<1> DEFINE new == [snap[w] EXCEPT !.status = "cancelled", !.cancelRequested = TRUE]
<1>1. /\ snap[w] \in Job
      /\ RowInv(snap[w], scope[target[w]], Classified)
      /\ pc[w] \in HoldsJob
  BY DEF CancelWrite, IInv, TypeOK, RequestTypeOK, RequestInv, HoldsJob
<1>2. new \in Job /\ new.status # "absent" /\ RowInv(new, scope[target[w]], Classified)
  BY <1>1, CancelRowInv
<1>3. /\ Write(target[w], new) /\ Respond(w)
      /\ UNCHANGED <<scope, cls, review, crashes>>
  BY DEF CancelWrite
<1> HIDE DEF new
<1> QED
  BY <1>1, <1>2, <1>3, WriteAndRespond

\* An advance that commits its batch.
LEMMA CommitStep ==
    ASSUME IInv, NEW w \in Worker, CommitAdvance(w)
    PROVE  IInv'
<1> DEFINE new == AfterBatch(snap[w], newFailed[w], sawFailed[w])
<1>1. /\ snap[w] \in Job /\ snap[w].status \in Active
      /\ RowInv(snap[w], scope[target[w]], Classified)
      /\ pc[w] \in HoldsJob
      /\ newFailed[w] \in SUBSET Product /\ sawFailed[w] \in BOOLEAN
      /\ scope[target[w]] \in SUBSET Product
  BY DEF CommitAdvance, IInv, TypeOK, RequestTypeOK, StoreTypeOK, RequestInv, HoldsJob
<1>2. /\ Range(Chunk(snap[w])) \ Range(todo[w]) \subseteq Classified
      /\ newFailed[w] \subseteq Range(Chunk(snap[w]))
      /\ todo[w] = <<>>
  BY DEF CommitAdvance, IInv, RequestInv
<1>3. Range(Chunk(snap[w])) \subseteq Classified
  BY <1>2, EmptyList
<1>4. new \in Job /\ new.status # "absent" /\ RowInv(new, scope[target[w]], Classified)
  BY <1>1, <1>2, <1>3, BatchRowInv
<1>5. /\ Write(target[w], new) /\ Respond(w)
      /\ UNCHANGED <<scope, cls, review, crashes>>
  BY DEF CommitAdvance
<1> HIDE DEF new
<1> QED
  BY <1>1, <1>4, <1>5, WriteAndRespond

\* A request that is answered after inserting a new row.
LEMMA InsertAndRespond ==
    ASSUME IInv, NEW w \in Worker, NEW j \in JobId, NEW s \in Seq(Product),
           IsInjective(s), NEW b \in Nat, NEW st \in {"queued", "completed"},
           st = "completed" => s = <<>>, Insert(j, NewJob(st, s, b)),
           Respond(w), UNCHANGED <<cls, review, crashes>>
    PROVE  IInv'
<1>1. Classified' = Classified
  BY DEF Classified
<1>2. /\ jobs' \in [JobId -> Job] /\ scope' \in [JobId -> SUBSET Product]
      /\ RowsOK' /\ StoreGrows
  BY <1>1, InsertKeepsRows DEF IInv, TypeOK, RowsOK
<1>3. StoreTypeOK' /\ crashes' \in Nat
  BY <1>2 DEF IInv, TypeOK, StoreTypeOK
<1>4. /\ RequestTypeOK' /\ RequestInv(w)'
      /\ \A v \in Worker \ {w} : SameRequest(v)
  BY RespondIsSound DEF IInv, TypeOK
<1> QED
  BY <1>2, <1>3, <1>4, Assemble

\* The insert of a create request.
LEMMA CreateInsertStep ==
    ASSUME IInv, NEW w \in Worker, CreateInsert(w)
    PROVE  IInv'
<1>1. PICK j \in JobId, b \in BatchSize : Insert(j, NewJob("queued", todo[w], b))
  BY DEF CreateInsert
<1>2. todo[w] \in Seq(Product) /\ IsInjective(todo[w]) /\ b \in Nat
  BY ConstantsAssumption
     DEF CreateInsert, IInv, TypeOK, RequestTypeOK, RequestInv
<1>3. Respond(w) /\ UNCHANGED <<cls, review, crashes>>
  BY DEF CreateInsert
<1> QED
  BY <1>1, <1>2, <1>3, InsertAndRespond

\* The insert of a retry request.
LEMMA RetryStep ==
    ASSUME IInv, NEW w \in Worker, RetryNothing(w) \/ RetryInsert(w)
    PROVE  IInv'
<1>1. snap[w] \in Job /\ snap[w].batch \in Nat /\ snap[w].failed \in SUBSET Product
  BY DEF IInv, TypeOK, RequestTypeOK, Job
<1>2. Respond(w) /\ UNCHANGED <<cls, review, crashes>>
  BY DEF RetryNothing, RetryInsert
<1>3. CASE RetryNothing(w)
  <2>1. PICK j \in JobId : Insert(j, NewJob("completed", <<>>, snap[w].batch))
    BY <1>3 DEF RetryNothing
  <2> QED
    BY <2>1, <1>1, <1>2, EmptyList, InsertAndRespond
<1>4. CASE RetryInsert(w)
  <2>1. PICK j \in JobId, s \in Orderings(snap[w].failed) :
            Insert(j, NewJob("queued", s, RetryBatch(snap[w])))
    BY <1>4 DEF RetryInsert
  <2>2. s \in Seq(Product) /\ IsInjective(s)
    BY <1>1, OrderingIsList
  <2>3. RetryBatch(snap[w]) \in Nat
    BY <1>1, ConstantsAssumption DEF RetryBatch
  <2> QED
    BY <2>1, <2>2, <2>3, <1>2, InsertAndRespond
<1> QED
  BY <1>3, <1>4

\* A step of a request that touches neither the jobs table nor its copy of a
\* row, and deletes no classification row.
LEMMA LocalStep ==
    ASSUME IInv, NEW w \in Worker, NEW p \in Pc,
           pc' = [pc EXCEPT ![w] = p],
           UNCHANGED <<jobs, scope, target, snap, crashes>>,
           cls' \in [Product -> ClsRow], review' \in [Product -> ReviewItem],
           todo' \in [Worker -> Seq(Product)], verdict' \in [Worker -> Verdict],
           newFailed' \in [Worker -> SUBSET Product],
           sawFailed' \in [Worker -> BOOLEAN],
           \A v \in Worker \ {w} : todo'[v] = todo[v] /\ newFailed'[v] = newFailed[v],
           Classified \subseteq Classified', RequestInv(w)'
    PROVE  IInv'
<1>1. StoreTypeOK' /\ RequestTypeOK' /\ crashes' \in Nat
  BY DEF IInv, TypeOK, StoreTypeOK, RequestTypeOK
<1>2. RowsOK' /\ StoreGrows
  BY RowsFrame DEF IInv, RowsOK
<1>3. \A v \in Worker \ {w} : SameRequest(v)
  BY DEF SameRequest, IInv, TypeOK, RequestTypeOK
<1> QED
  BY <1>1, <1>2, <1>3, Assemble

\* The steps of a create request before its insert.
LEMMA CreateStep ==
    ASSUME IInv, NEW w \in Worker, CreateCheck(w) \/ CreateList(w)
    PROVE  IInv'
<1>1. Classified' = Classified /\ UNCHANGED <<jobs, scope, cls, review, target,
            snap, verdict, newFailed, sawFailed, crashes>>
  BY DEF CreateCheck, CreateList, storeVars, Classified
<1>2. newFailed[w] = {} /\ todo[w] = <<>>
  BY DEF CreateCheck, CreateList, IInv, RequestInv, HoldsJob
<1>3. CASE CreateCheck(w)
  <2>1. pc' = [pc EXCEPT ![w] = "list"] /\ todo' = todo
    BY <1>3 DEF CreateCheck
  <2>2. RequestInv(w)'
    BY <2>1, <1>1, <1>2 DEF RequestInv, HoldsJob, IInv, TypeOK, RequestTypeOK
  <2> QED
    BY <2>1, <2>2, <1>1, LocalStep DEF IInv, TypeOK, StoreTypeOK, RequestTypeOK, Pc
<1>4. CASE CreateList(w)
  <2>0. PICK everything \in BOOLEAN : \E s \in Orderings(Eligible(everything)) :
            todo' = [todo EXCEPT ![w] = s]
    BY <1>4 DEF CreateList
  <2>1. PICK s \in Orderings(Eligible(everything)) : todo' = [todo EXCEPT ![w] = s]
    BY <2>0
  <2>2. s \in Seq(Product) /\ IsInjective(s)
    BY OrderingIsList DEF Eligible
  <2>3. pc' = [pc EXCEPT ![w] = "insert"]
    BY <1>4 DEF CreateList
  <2>4. RequestInv(w)'
    BY <2>1, <2>2, <2>3 DEF RequestInv, HoldsJob, IInv, TypeOK, RequestTypeOK
  <2>5. /\ todo' \in [Worker -> Seq(Product)]
        /\ \A v \in Worker \ {w} : todo'[v] = todo[v]
    BY <2>1, <2>2 DEF IInv, TypeOK, RequestTypeOK
  <2> QED
    BY <2>3, <2>4, <2>5, <1>1, LocalStep
       DEF IInv, TypeOK, StoreTypeOK, RequestTypeOK, Pc
<1> QED
  BY <1>3, <1>4

\* The steps of an advance that only move it to its coverage count or commit.
LEMMA CountStep ==
    ASSUME IInv, NEW w \in Worker, AdvanceDrained(w) \/ CountCoverage(w)
    PROVE  IInv'
<1>1. /\ Classified' = Classified
      /\ UNCHANGED <<jobs, scope, cls, review, target, snap, todo, verdict,
                     newFailed, crashes>>
  BY DEF AdvanceDrained, CountCoverage, storeVars, Classified
<1>2. sawFailed' \in [Worker -> BOOLEAN]
  BY DEF AdvanceDrained, CountCoverage, IInv, TypeOK, RequestTypeOK
<1>3. \E p \in {"count", "commit"} : pc' = [pc EXCEPT ![w] = p]
  BY DEF AdvanceDrained, CountCoverage
<1>4. PICK p \in {"count", "commit"} : pc' = [pc EXCEPT ![w] = p]
  BY <1>3
<1>5. /\ pc[w] \in {"advance", "count"} /\ todo[w] = <<>>
      /\ Range(Chunk(snap[w])) \subseteq Classified
      /\ newFailed[w] \subseteq Range(Chunk(snap[w]))
  <2>1. CASE AdvanceDrained(w)
    <3>1. pc[w] = "advance" /\ snap[w].pending = <<>> /\ snap[w] \in Job
      BY <2>1 DEF AdvanceDrained, IInv, TypeOK, RequestTypeOK
    <3>2. Chunk(snap[w]) = <<>>
      BY <3>1, Slicing
    <3>3. newFailed[w] = {} /\ todo[w] = <<>>
      BY <3>1 DEF IInv, RequestInv
    <3> QED
      BY <3>1, <3>2, <3>3, EmptyList
  <2>2. CASE CountCoverage(w)
    <3>1. pc[w] = "count"
      BY <2>2 DEF CountCoverage
    <3> QED
      BY <3>1, EmptyList DEF IInv, RequestInv
  <2> QED
    BY <2>1, <2>2
<1>6. RequestInv(w)'
  <2>1. pc'[w] = p /\ pc[w] \in HoldsJob
    BY <1>4, <1>5 DEF IInv, TypeOK, RequestTypeOK, HoldsJob
  <2>2. /\ jobs[target[w]].status # "absent"
        /\ snap[w].status \in Active
        /\ RowInv(snap[w], scope[target[w]], Classified)
    BY <2>1 DEF IInv, RequestInv
  <2> QED
    BY <1>1, <1>5, <2>1, <2>2, EmptyList DEF RequestInv, HoldsJob
<1> QED
  BY <1>1, <1>2, <1>4, <1>6, LocalStep
     DEF IInv, TypeOK, StoreTypeOK, RequestTypeOK, Pc

\* An advance that takes its chunk and writes the row back as running.
LEMMA StartStep ==
    ASSUME IInv, NEW w \in Worker, AdvanceStart(w)
    PROVE  IInv'
<1> DEFINE new == [snap[w] EXCEPT !.status = "running"]
           chunk == Chunk(snap[w])
<1>1. /\ snap[w] \in Job /\ snap[w].status \in Active
      /\ RowInv(snap[w], scope[target[w]], Classified)
      /\ jobs[target[w]].status # "absent"
      /\ target[w] \in JobId /\ snap[w].pending # <<>>
      /\ pc[w] = "advance" /\ newFailed[w] = {}
  BY DEF AdvanceStart, IInv, TypeOK, RequestTypeOK, RequestInv, HoldsJob
<1>2. chunk \in Seq(Product) /\ chunk # <<>>
  BY <1>1, Slicing
<1>3. new \in Job /\ new.status # "absent" /\ RowInv(new, scope[target[w]], Classified)
  BY <1>1, StatusRowInv
<1>4. /\ Write(target[w], new)
      /\ todo' = [todo EXCEPT ![w] = chunk]
      /\ pc' = [pc EXCEPT ![w] = "classify"]
      /\ UNCHANGED <<scope, cls, review, target, snap, verdict, newFailed,
                     sawFailed, crashes>>
  BY DEF AdvanceStart
<1> HIDE DEF new, chunk
<1>5. Classified' = Classified
  BY <1>4 DEF Classified
<1>6. jobs' \in [JobId -> Job] /\ RowsOK' /\ StoreGrows
  BY <1>1, <1>3, <1>4, <1>5, WriteKeepsRows DEF IInv, TypeOK, RowsOK
<1>7. StoreTypeOK' /\ crashes' \in Nat
  BY <1>4, <1>6 DEF IInv, TypeOK, StoreTypeOK
<1>8. RequestTypeOK' /\ \A v \in Worker \ {w} : SameRequest(v)
  BY <1>2, <1>4 DEF IInv, TypeOK, RequestTypeOK, Pc, SameRequest
<1>9. RequestInv(w)'
  <2>1. pc'[w] = "classify" /\ todo'[w] = chunk /\ newFailed'[w] = {}
    BY <1>1, <1>4 DEF IInv, TypeOK, RequestTypeOK
  <2>2. jobs'[target[w]].status # "absent"
    BY <1>1, <1>6 DEF StoreGrows
  <2> QED
    BY <1>1, <1>2, <1>4, <1>5, <2>1, <2>2 DEF RequestInv, HoldsJob, chunk
<1> QED
  BY <1>6, <1>7, <1>8, <1>9, Assemble

\* A verdict that is recorded as a classification row.
LEMMA ClassifyStep ==
    ASSUME IInv, NEW w \in Worker, Classify(w)
    PROVE  IInv'
<1>1. /\ pc[w] = "classify" /\ todo[w] \in Seq(Product) /\ todo[w] # <<>>
      /\ cls \in [Product -> ClsRow]
  BY DEF Classify, IInv, TypeOK, StoreTypeOK, RequestTypeOK, RequestInv
<1>2. Head(todo[w]) \in Product
  BY <1>1, HeadAndTail
<1>3. PICK v \in Verdict : \E c \in ClsAfter(v) :
        /\ cls' = [cls EXCEPT ![Head(todo[w])] = c]
        /\ verdict' = [verdict EXCEPT ![w] = v]
  BY DEF Classify
<1>4. PICK c \in ClsAfter(v) :
        /\ cls' = [cls EXCEPT ![Head(todo[w])] = c]
        /\ verdict' = [verdict EXCEPT ![w] = v]
  BY <1>3
<1>5. c \in ClsRow /\ c # "none"
  BY <1>4 DEF ClsAfter, ClsRow
<1>6. /\ cls' \in [Product -> ClsRow] /\ cls'[Head(todo[w])] # "none"
      /\ Classified \subseteq Classified'
  BY <1>1, <1>2, <1>4, <1>5 DEF Classified
<1>7. /\ pc' = [pc EXCEPT ![w] = "enqueue"]
      /\ UNCHANGED <<jobs, scope, review, target, snap, todo, newFailed,
                     sawFailed, crashes>>
  BY DEF Classify
<1>8. verdict' \in [Worker -> Verdict]
  BY <1>4 DEF IInv, TypeOK, RequestTypeOK
<1>9. RequestInv(w)'
  <2>1. pc'[w] = "enqueue"
    BY <1>7 DEF IInv, TypeOK, RequestTypeOK
  <2>2. /\ jobs[target[w]].status # "absent"
        /\ snap[w].status \in Active
        /\ RowInv(snap[w], scope[target[w]], Classified)
        /\ Range(todo[w]) \subseteq Range(Chunk(snap[w]))
        /\ Range(Chunk(snap[w])) \ Range(todo[w]) \subseteq Classified
        /\ newFailed[w] \subseteq Range(Chunk(snap[w]))
    BY <1>1 DEF IInv, RequestInv, HoldsJob
  <2>3. RowInv(snap[w], scope[target[w]], Classified')
    BY <2>2, <1>6, RowInvGrows
  <2>4. Range(Chunk(snap[w])) \ Range(todo[w]) \subseteq Classified'
    BY <2>2, <1>6
  <2> QED
    BY <1>1, <1>6, <1>7, <2>1, <2>2, <2>3, <2>4 DEF RequestInv, HoldsJob
<1> QED
  BY <1>6, <1>7, <1>8, <1>9, LocalStep
     DEF IInv, TypeOK, StoreTypeOK, RequestTypeOK, Pc

\* A verdict whose review item is queued or removed.
LEMMA EnqueueStep ==
    ASSUME IInv, NEW w \in Worker, Enqueue(w)
    PROVE  IInv'
<1> DEFINE head == Head(todo[w])
           tail == Tail(todo[w])
           chunk == Range(Chunk(snap[w]))
           p == IF Len(todo[w]) = 1 THEN "count" ELSE "classify"
<1>1. /\ pc[w] = "enqueue" /\ todo[w] \in Seq(Product) /\ todo[w] # <<>>
      /\ cls[head] # "none"
  BY DEF Enqueue, IInv, TypeOK, RequestTypeOK, RequestInv
<1>2. /\ head \in Product /\ tail \in Seq(Product)
      /\ Range(todo[w]) = {head} \cup Range(tail)
      /\ Len(todo[w]) = 1 <=> tail = <<>>
  BY <1>1, HeadAndTail
<1>3. /\ jobs[target[w]].status # "absent"
      /\ snap[w].status \in Active
      /\ RowInv(snap[w], scope[target[w]], Classified)
      /\ Range(todo[w]) \subseteq chunk
      /\ chunk \ Range(todo[w]) \subseteq Classified
      /\ newFailed[w] \subseteq chunk
      /\ newFailed[w] \in SUBSET Product
  BY <1>1 DEF IInv, TypeOK, RequestTypeOK, RequestInv, HoldsJob
<1>4. /\ pc' = [pc EXCEPT ![w] = p]
      /\ review' = [review EXCEPT ![head] = ReviewAfter(verdict[w])]
      /\ todo' = [todo EXCEPT ![w] = tail]
      /\ verdict' = [verdict EXCEPT ![w] = "accepted"]
      /\ UNCHANGED <<jobs, scope, cls, target, snap, sawFailed, crashes>>
  BY DEF Enqueue
<1>5. PICK ids \in {newFailed[w], newFailed[w] \cup {head}} :
        newFailed' = [newFailed EXCEPT ![w] = ids]
  BY DEF Enqueue
<1>6. p = IF tail = <<>> THEN "count" ELSE "classify"
  BY <1>2
<1>7. head \in Classified
  BY <1>1, <1>2 DEF Classified
<1> HIDE DEF head, tail, chunk, p
<1>8. /\ p \in {"count", "classify"}
      /\ Range(tail) \subseteq chunk /\ chunk \ Range(tail) \subseteq Classified
      /\ ids \subseteq chunk /\ ids \in SUBSET Product
  BY <1>2, <1>3, <1>5, <1>6, <1>7
<1>9. review' \in [Product -> ReviewItem]
  BY <1>4 DEF ReviewAfter, ReviewItem, Verdict, IInv, TypeOK, StoreTypeOK,
              RequestTypeOK
<1>10. /\ todo' \in [Worker -> Seq(Product)]
       /\ newFailed' \in [Worker -> SUBSET Product]
       /\ verdict' \in [Worker -> Verdict]
       /\ \A v \in Worker \ {w} : todo'[v] = todo[v] /\ newFailed'[v] = newFailed[v]
  BY <1>2, <1>4, <1>5, <1>8 DEF IInv, TypeOK, RequestTypeOK, Verdict
<1>11. RequestInv(w)'
  <2>1. pc'[w] = p /\ todo'[w] = tail /\ newFailed'[w] = ids
    BY <1>4, <1>5 DEF IInv, TypeOK, RequestTypeOK
  <2>2. Classified' = Classified /\ snap' = snap /\ target' = target
    BY <1>4 DEF Classified
  <2> QED
    BY <1>3, <1>4, <1>6, <1>8, <2>1, <2>2 DEF RequestInv, HoldsJob, chunk
<1>12. p \in Pc /\ Classified' = Classified
  BY <1>4, <1>8 DEF Pc, Classified
<1> QED
  BY <1>4, <1>9, <1>10, <1>11, <1>12, LocalStep
     DEF IInv, TypeOK, StoreTypeOK, RequestTypeOK

\* A request that dies.
LEMMA CrashStep ==
    ASSUME IInv, NEW w \in Worker, Crash(w)
    PROVE  IInv'
<1>1. Respond(w) /\ crashes' = crashes + 1 /\ UNCHANGED <<jobs, scope, cls, review>>
  BY DEF Crash, storeVars
<1>2. /\ RequestTypeOK' /\ RequestInv(w)'
      /\ \A v \in Worker \ {w} : SameRequest(v)
  BY <1>1, RespondIsSound DEF IInv, TypeOK
<1>3. StoreTypeOK' /\ crashes' \in Nat
  BY <1>1 DEF IInv, TypeOK, StoreTypeOK
<1>4. RowsOK' /\ StoreGrows
  BY <1>1, RowsFrame DEF IInv, RowsOK, Classified
<1> QED
  BY <1>2, <1>3, <1>4, Assemble

\* A stale row that is cancelled.
LEMMA SweepStep ==
    ASSUME IInv, NEW j \in JobId, SweepStale(j)
    PROVE  IInv'
<1> DEFINE new == [jobs[j] EXCEPT !.status = "cancelled"]
<1>1. /\ jobs[j] \in Job /\ jobs[j].status \in Active
      /\ RowInv(jobs[j], scope[j], Classified)
  BY DEF SweepStale, IInv, TypeOK, StoreTypeOK
<1>2. new \in Job /\ new.status # "absent" /\ RowInv(new, scope[j], Classified)
  BY <1>1, StatusRowInv
<1>3. /\ Write(j, new)
      /\ UNCHANGED <<scope, cls, review, crashes>>
      /\ UNCHANGED <<pc, target, snap, todo, verdict, newFailed, sawFailed>>
  BY DEF SweepStale, requestVars
<1> HIDE DEF new
<1>4. jobs' \in [JobId -> Job] /\ RowsOK' /\ StoreGrows
  BY <1>2, <1>3, WriteKeepsRows DEF IInv, TypeOK, RowsOK, Classified
<1>5. StoreTypeOK' /\ RequestTypeOK' /\ crashes' \in Nat
  BY <1>3, <1>4 DEF IInv, TypeOK, StoreTypeOK, RequestTypeOK
<1>6. ASSUME NEW v \in Worker PROVE RequestInv(v)'
  <2>1. SameRequest(v)
    BY <1>3 DEF SameRequest
  <2> QED
    BY <2>1, <1>4, RequestFrame DEF IInv
<1> QED
  BY <1>4, <1>5, <1>6 DEF IInv, TypeOK, RowsOK

\* A step that changes nothing.
LEMMA StutterStep ==
    ASSUME IInv, UNCHANGED vars
    PROVE  IInv'
<1>1. UNCHANGED <<jobs, scope, cls, review, pc, target, snap, todo, verdict,
                  newFailed, sawFailed, crashes>>
  BY DEF vars, storeVars, requestVars
<1>2. StoreTypeOK' /\ RequestTypeOK' /\ crashes' \in Nat
  BY <1>1 DEF IInv, TypeOK, StoreTypeOK, RequestTypeOK
<1>3. RowsOK' /\ StoreGrows
  BY <1>1, RowsFrame DEF IInv, RowsOK, Classified
<1>4. ASSUME NEW v \in Worker PROVE RequestInv(v)'
  <2>1. SameRequest(v)
    BY <1>1 DEF SameRequest
  <2> QED
    BY <2>1, <1>3, RequestFrame DEF IInv
<1> QED
  BY <1>2, <1>3, <1>4 DEF IInv, TypeOK, RowsOK

-----------------------------------------------------------------------------
(* Theorems *)

\* The inductive invariant holds in every reachable state: every stored row,
\* and every copy of a row that a request may still write back, accounts for
\* each product of the job as either pending or classified.
THEOREM Soundness == Spec => []IInv
<1>1. ASSUME IInv, [Next]_vars
      PROVE  IInv'
  <2>1. CASE UNCHANGED vars
    BY <1>1, <2>1, StutterStep
  <2>2. ASSUME NEW j \in JobId, SweepStale(j)
        PROVE  IInv'
    BY <1>1, <2>2, SweepStep
  <2>3. ASSUME NEW w \in Worker, CreateCheck(w)
        PROVE  IInv'
    BY <1>1, <2>3, CreateStep
  <2>4. ASSUME NEW w \in Worker, NEW j \in JobId,
               AdvanceRead(w, j) \/ CancelRead(w, j) \/ RetryRead(w, j)
        PROVE  IInv'
    BY <1>1, <2>4, ReadStep
  <2>5. ASSUME NEW w \in Worker, Serve(w)
        PROVE  IInv'
    <3>1. CASE CreateList(w)
      BY <1>1, <3>1, CreateStep
    <3>2. CASE CreateInsert(w)
      BY <1>1, <3>2, CreateInsertStep
    <3>3. CASE AdvanceStop(w)
      BY <1>1, <3>3, StopStep
    <3>4. CASE AdvanceDrained(w) \/ CountCoverage(w)
      BY <1>1, <3>4, CountStep
    <3>5. CASE AdvanceStart(w)
      BY <1>1, <3>5, StartStep
    <3>6. CASE Classify(w)
      BY <1>1, <3>6, ClassifyStep
    <3>7. CASE Enqueue(w)
      BY <1>1, <3>7, EnqueueStep
    <3>8. CASE CommitAdvance(w)
      BY <1>1, <3>8, CommitStep
    <3>9. CASE CancelWrite(w)
      BY <1>1, <3>9, CancelStep
    <3>10. CASE RetryNothing(w) \/ RetryInsert(w)
      BY <1>1, <3>10, RetryStep
    <3> QED
      BY <2>5, <3>1, <3>2, <3>3, <3>4, <3>5, <3>6, <3>7, <3>8, <3>9, <3>10
         DEF Serve, Advance
  <2>6. ASSUME NEW w \in Worker, Crash(w)
        PROVE  IInv'
    BY <1>1, <2>6, CrashStep
  <2> QED
    BY <1>1, <2>1, <2>2, <2>3, <2>4, <2>5, <2>6 DEF Next
<1> QED
  BY <1>1, InitSound, PTL DEF Spec

\* The tables and every request in flight are well typed.
THEOREM TypeCorrect == Spec => []TypeOK
<1>1. IInv => TypeOK
  BY DEF IInv
<1> QED
  BY <1>1, Soundness, PTL

\* However requests interleave or die, no product of a job is lost.
THEOREM NothingIsSkipped == Spec => []NoProductSkipped
<1>1. IInv => NoProductSkipped
  BY DEF IInv, TypeOK, StoreTypeOK, RowInv, NoProductSkipped, Classified
<1> QED
  BY <1>1, Soundness, PTL

\* The progress bar is right after any mix of stale writes.
THEOREM ProgressIsRight == Spec => []ProgressAddsUp
<1>1. IInv => ProgressAddsUp
  BY DEF IInv, RowInv, ProgressAddsUp
<1> QED
  BY <1>1, Soundness, PTL

\* retry-failed only repeats products the job has given up on.
THEOREM RetriesRepeatWork == Spec => []FailedWereTried
<1>1. IInv => FailedWereTried
  BY DEF IInv, RowInv, FailedWereTried
<1> QED
  BY <1>1, Soundness, PTL

\* A job reported as completed has classified every product it was given.
THEOREM CompletionIsEarned == Spec => []CompletedIsComplete
<1>1. IInv => CompletedIsComplete
  BY EmptyList DEF IInv, TypeOK, StoreTypeOK, RowInv, CompletedIsComplete, Classified
<1> QED
  BY <1>1, Soundness, PTL
-----------------------------------------------------------------------------
(* One tab: at most one request is served at a time.  The copy a request    *)
(* holds is then current, every step on the table is a step of the          *)
(* lifecycle, and what a request has recorded and counted is not undone.    *)

\* What one step may do to the table of jobs: nothing, insert a row, hand work of an
\* active row in, or give an active row up.
RowInserted(j, row) ==
    /\ jobs[j].status = "absent" /\ jobs' = [jobs EXCEPT ![j] = row]
    /\ row \in Job /\ row.status \in {"queued", "completed"}
    /\ row.status = "completed" => row.pending = <<>>

RowWorked(j, row) ==
    /\ jobs[j].status \in Active /\ jobs' = [jobs EXCEPT ![j] = row]
    /\ row \in Job /\ row.status \in {"running"} \cup Completed
    /\ Range(row.pending) \subseteq Range(jobs[j].pending)
    /\ row.status \in Completed => row.pending = <<>>

RowStopped(j, row) ==
    /\ jobs[j].status \in Active /\ jobs' = [jobs EXCEPT ![j] = row]
    /\ row \in Job /\ row.status \in {"failed", "cancelled"}
    /\ row.pending = jobs[j].pending

TableStep ==
    \/ jobs' = jobs
    \/ \E j \in JobId, row \in Job :
        RowInserted(j, row) \/ RowWorked(j, row) \/ RowStopped(j, row)

\* The row a request holds is active, and has what the copy has.
LEMMA HeldRow ==
    ASSUME IInv, CopyIsCurrent, NEW w \in Worker, pc[w] \in HoldsJob
    PROVE  /\ target[w] \in JobId /\ snap[w] \in Job /\ snap[w].status \in Active
           /\ jobs[target[w]] \in Job
           /\ jobs[target[w]].status \in Active
           /\ jobs[target[w]].pending = snap[w].pending
<1>1. /\ target[w] \in JobId /\ snap[w] \in Job /\ snap[w].status \in Active
      /\ jobs \in [JobId -> Job]
  BY DEF IInv, TypeOK, StoreTypeOK, RequestTypeOK, RequestInv
<1>2. jobs[target[w]] \in {snap[w], [snap[w] EXCEPT !.status = "running"]}
  BY DEF CopyIsCurrent
<1> QED
  BY <1>1, <1>2 DEF Job, Active

\* A batch that is handed in leaves a part of the pending list.
LEMMA BatchOfHeldRow ==
    ASSUME NEW row \in Job, NEW ids \in SUBSET Product, NEW errors \in BOOLEAN
    PROVE  LET new == AfterBatch(row, ids, errors)
           IN  /\ new \in Job
               /\ new.status \in {"running"} \cup Completed
               /\ new.pending = Remaining(row)
               /\ Range(new.pending) \subseteq Range(row.pending)
               /\ new.status \in Completed => new.pending = <<>>
<1> DEFINE st == StatusAfter(row, errors)
           rest == Remaining(row)
           chunk == Chunk(row)
           new == AfterBatch(row, ids, errors)
<1>1. /\ st \in {"running"} \cup Completed
      /\ st \in Completed => rest = <<>>
  BY DEF StatusAfter, Completed
<1>2. /\ rest \in Seq(Product) /\ Len(chunk) \in Nat
      /\ Range(rest) \subseteq Range(row.pending)
  BY Slicing
<1>3. /\ new = [row EXCEPT !.status = st, !.pending = rest,
                           !.processed = row.processed + Len(chunk),
                           !.failed = row.failed \cup ids]
      /\ row.processed + Len(chunk) \in Nat /\ row.failed \cup ids \in SUBSET Product
  BY <1>2 DEF AfterBatch, Job
<1>4. st \in Active \cup Terminal \cup {"absent"}
  BY <1>1 DEF Active, Terminal, Completed
<1> HIDE DEF st, rest, chunk, new
<1>5. /\ new.status = st /\ new.pending = rest /\ new \in Job
  BY <1>2, <1>3, <1>4 DEF Job
<1> QED
  BY <1>1, <1>2, <1>5 DEF rest, new

\* A new job is inserted.
LEMMA InsertRow ==
    ASSUME IInv, NEW w \in Worker, CreateInsert(w) \/ RetryNothing(w) \/ RetryInsert(w)
    PROVE  \E j \in JobId, row \in Job : RowInserted(j, row)
<1>1. PICK j \in JobId : \E st \in {"queued", "completed"}, s \in Seq(Product), b \in Nat :
          /\ st = "completed" => s = <<>>
          /\ Insert(j, NewJob(st, s, b))
  <2>1. /\ todo[w] \in Seq(Product) /\ snap[w] \in Job
        /\ snap[w].batch \in Nat /\ snap[w].failed \in SUBSET Product
    BY DEF IInv, TypeOK, RequestTypeOK, Job
  <2>2. CASE CreateInsert(w)
    <3>1. PICK j \in JobId, b \in BatchSize : Insert(j, NewJob("queued", todo[w], b))
      BY <2>2 DEF CreateInsert
    <3>2. b \in Nat
      BY ConstantsAssumption
    <3> QED
      BY <2>1, <3>1, <3>2
  <2>3. CASE RetryNothing(w)
    BY <2>1, <2>3, EmptyList DEF RetryNothing
  <2>4. CASE RetryInsert(w)
    <3>1. PICK j \in JobId, s \in Orderings(snap[w].failed) :
              Insert(j, NewJob("queued", s, RetryBatch(snap[w])))
      BY <2>4 DEF RetryInsert
    <3>2. s \in Seq(Product) /\ RetryBatch(snap[w]) \in Nat
      BY <2>1, OrderingIsList, ConstantsAssumption DEF RetryBatch
    <3> QED
      BY <3>1, <3>2
  <2> QED
    BY <2>2, <2>3, <2>4
<1>2. PICK st \in {"queued", "completed"}, s \in Seq(Product), b \in Nat :
          /\ st = "completed" => s = <<>>
          /\ Insert(j, NewJob(st, s, b))
  BY <1>1
<1> DEFINE row == NewJob(st, s, b)
<1>3. row \in Job /\ row.status = st /\ row.pending = s
  BY <1>2, LenProperties DEF NewJob, Job, Active, Terminal, Completed
<1>4. jobs[j].status = "absent" /\ jobs' = [jobs EXCEPT ![j] = row]
  BY <1>2 DEF Insert, FreeJob, Write
<1> HIDE DEF row
<1>5. RowInserted(j, row)
  BY <1>2, <1>3, <1>4 DEF RowInserted
<1> QED
  BY <1>3, <1>5

\* A request gives its job up.
LEMMA StopRow ==
    ASSUME IInv, CopyIsCurrent, NEW w \in Worker, AdvanceStop(w) \/ CancelWrite(w)
    PROVE  \E row \in Job : RowStopped(target[w], row)
<1>1. pc[w] \in HoldsJob
  BY DEF AdvanceStop, CancelWrite, HoldsJob
<1>2. /\ target[w] \in JobId /\ snap[w] \in Job
      /\ jobs[target[w]].status \in Active
      /\ jobs[target[w]].pending = snap[w].pending
  BY <1>1, HeldRow
<1>3. PICK row : /\ row \in Job /\ row.status \in {"failed", "cancelled"}
                 /\ row.pending = snap[w].pending
                 /\ Write(target[w], row)
  BY <1>2 DEF AdvanceStop, CancelWrite, Job, Active, Terminal
<1>4. RowStopped(target[w], row)
  BY <1>2, <1>3 DEF RowStopped, Write
<1> QED
  BY <1>2, <1>3, <1>4

\* An advance starts, and takes nothing off the list yet.
LEMMA StartRow ==
    ASSUME IInv, CopyIsCurrent, NEW w \in Worker, AdvanceStart(w)
    PROVE  \E row \in Job :
              RowWorked(target[w], row) /\ row.pending = jobs[target[w]].pending
<1> DEFINE row == [snap[w] EXCEPT !.status = "running"]
<1>1. pc[w] \in HoldsJob
  BY DEF AdvanceStart, HoldsJob
<1>2. /\ target[w] \in JobId /\ snap[w] \in Job
      /\ jobs[target[w]].status \in Active
      /\ jobs[target[w]].pending = snap[w].pending
  BY <1>1, HeldRow
<1>3. row \in Job /\ row.status = "running" /\ row.pending = snap[w].pending
  BY <1>2 DEF Job, Active
<1>4. jobs' = [jobs EXCEPT ![target[w]] = row]
  BY DEF AdvanceStart, Write
<1> HIDE DEF row
<1>5. RowWorked(target[w], row)
  BY <1>2, <1>3, <1>4 DEF RowWorked, Completed
<1> QED
  BY <1>2, <1>3, <1>5

\* Every step is one of those.
LEMMA StepOfTable ==
    ASSUME IInv, IInv', CopyIsCurrent, [Next]_vars
    PROVE  TableStep
<1>1. /\ jobs \in [JobId -> Job] /\ jobs' \in [JobId -> Job]
  BY DEF IInv, TypeOK, StoreTypeOK
<1>2. CASE UNCHANGED vars
  BY <1>2 DEF vars, storeVars, TableStep
<1>3. ASSUME NEW j \in JobId, SweepStale(j)
      PROVE  TableStep
  <2> DEFINE row == [jobs[j] EXCEPT !.status = "cancelled"]
  <2>1. row \in Job /\ row.status = "cancelled" /\ row.pending = jobs[j].pending
    BY <1>1 DEF Job, Active, Terminal
  <2>2. jobs[j].status \in Active /\ jobs' = [jobs EXCEPT ![j] = row]
    BY <1>3 DEF SweepStale, Write
  <2> HIDE DEF row
  <2>3. RowStopped(j, row)
    BY <2>1, <2>2 DEF RowStopped
  <2> QED
    BY <2>1, <2>3 DEF TableStep
<1>4. ASSUME NEW w \in Worker, NEW j \in JobId,
             AdvanceRead(w, j) \/ CancelRead(w, j) \/ RetryRead(w, j)
      PROVE  TableStep
  BY <1>4 DEF AdvanceRead, CancelRead, RetryRead, storeVars, TableStep
<1>5. ASSUME NEW w \in Worker,
             \/ CreateCheck(w) \/ CreateList(w) \/ AdvanceDrained(w) \/ Classify(w)
             \/ Enqueue(w) \/ CountCoverage(w) \/ Crash(w)
      PROVE  TableStep
  BY <1>5 DEF CreateCheck, CreateList, AdvanceDrained, Classify, Enqueue,
              CountCoverage, Crash, storeVars, TableStep
<1>6. ASSUME NEW w \in Worker, CreateInsert(w) \/ RetryNothing(w) \/ RetryInsert(w)
      PROVE  TableStep
  BY <1>6, InsertRow DEF TableStep
<1>7. ASSUME NEW w \in Worker, AdvanceStop(w) \/ CancelWrite(w)
      PROVE  TableStep
  BY <1>7, StopRow, HeldRow DEF TableStep, AdvanceStop, CancelWrite, HoldsJob
<1>8. ASSUME NEW w \in Worker, AdvanceStart(w)
      PROVE  TableStep
  BY <1>8, StartRow, HeldRow DEF TableStep, AdvanceStart, HoldsJob
<1>9. ASSUME NEW w \in Worker, CommitAdvance(w)
      PROVE  TableStep
  <2> DEFINE row == AfterBatch(snap[w], newFailed[w], sawFailed[w])
  <2>1. pc[w] \in HoldsJob
    BY <1>9 DEF CommitAdvance, HoldsJob
  <2>2. /\ target[w] \in JobId /\ snap[w] \in Job
        /\ jobs[target[w]].status \in Active
        /\ jobs[target[w]].pending = snap[w].pending
    BY <2>1, HeldRow
  <2>3. newFailed[w] \in SUBSET Product /\ sawFailed[w] \in BOOLEAN
    BY DEF IInv, TypeOK, RequestTypeOK
  <2>4. /\ row \in Job /\ row.status \in {"running"} \cup Completed
        /\ Range(row.pending) \subseteq Range(snap[w].pending)
        /\ row.status \in Completed => row.pending = <<>>
    BY <2>2, <2>3, BatchOfHeldRow
  <2>5. jobs' = [jobs EXCEPT ![target[w]] = row]
    BY <1>9 DEF CommitAdvance, Write
  <2> HIDE DEF row
  <2>6. RowWorked(target[w], row)
    BY <2>2, <2>4, <2>5 DEF RowWorked
  <2> QED
    BY <2>2, <2>4, <2>6 DEF TableStep
<1> QED
  BY <1>2, <1>3, <1>4, <1>5, <1>6, <1>7, <1>8, <1>9 DEF Next, Serve, Advance

\* What the only request holds stays current: nobody else writes its row, and the
\* sweep leaves it alone.
LEMMA CopyStaysCurrent ==
    ASSUME OneTab, IInv, IInv', CopyIsCurrent, [Next]_vars
    PROVE  CopyIsCurrent'
<1>1. ASSUME NEW j \in JobId, jobs'[j].status = "absent"
      PROVE  jobs'[j].pending = <<>>
  <2>1. jobs \in [JobId -> Job]
    BY DEF IInv, TypeOK, StoreTypeOK
  <2>2. CASE jobs' = jobs
    BY <1>1, <2>2 DEF CopyIsCurrent
  <2>3. ASSUME NEW i \in JobId, NEW row \in Job,
               RowInserted(i, row) \/ RowWorked(i, row) \/ RowStopped(i, row)
        PROVE  jobs'[j].pending = <<>>
    <3>1. row.status # "absent" /\ jobs' = [jobs EXCEPT ![i] = row]
      BY <2>3 DEF RowInserted, RowWorked, RowStopped, Completed
    <3>2. jobs'[j] = jobs[j]
      BY <1>1, <2>1, <3>1
    <3> QED
      BY <1>1, <3>2 DEF CopyIsCurrent
  <2> QED
    BY <2>2, <2>3, StepOfTable DEF TableStep
<1>2. ASSUME NEW w \in Worker, pc'[w] \in HoldsJob
      PROVE  jobs'[target'[w]] \in {snap'[w], [snap'[w] EXCEPT !.status = "running"]}
  <2>1. /\ jobs \in [JobId -> Job] /\ pc \in [Worker -> Pc]
        /\ target \in [Worker -> JobId] /\ snap \in [Worker -> Job]
    BY DEF IInv, TypeOK, StoreTypeOK, RequestTypeOK
  <2>2. ASSUME NEW v \in Worker PROVE v = w
    BY DEF OneTab
  <2>3. pc[w] \in HoldsJob =>
            jobs[target[w]] \in {snap[w], [snap[w] EXCEPT !.status = "running"]}
    BY DEF CopyIsCurrent
  <2>4. CASE UNCHANGED vars
    BY <1>2, <2>3, <2>4 DEF vars, storeVars, requestVars
  <2>5. ASSUME NEW j \in JobId, SweepStale(j)
        PROVE  jobs'[target'[w]] \in {snap'[w], [snap'[w] EXCEPT !.status = "running"]}
    <3>1. UNCHANGED <<pc, target, snap>>
      BY <2>5 DEF SweepStale, requestVars
    <3>2. target[w] # j /\ jobs'[target[w]] = jobs[target[w]]
      BY <1>2, <2>1, <2>5, <3>1 DEF SweepStale, Write
    <3> QED
      BY <1>2, <2>3, <3>1, <3>2
  <2>6. ASSUME NEW j \in JobId, AdvanceRead(w, j) \/ CancelRead(w, j) \/ RetryRead(w, j)
        PROVE  jobs'[target'[w]] \in {snap'[w], [snap'[w] EXCEPT !.status = "running"]}
    <3>1. jobs' = jobs /\ target'[w] = j /\ snap'[w] = jobs[j]
      BY <2>1, <2>6 DEF AdvanceRead, CancelRead, RetryRead, Request, storeVars
    <3> QED
      BY <3>1
  <2>7. CASE CreateCheck(w) \/ CreateList(w)
    BY <1>2, <2>1, <2>7 DEF CreateCheck, CreateList, HoldsJob
  <2>8. CASE AdvanceDrained(w) \/ Classify(w) \/ Enqueue(w) \/ CountCoverage(w)
    <3>1. pc[w] \in HoldsJob /\ UNCHANGED <<jobs, target, snap>>
      BY <2>8 DEF AdvanceDrained, Classify, Enqueue, CountCoverage, HoldsJob, storeVars
    <3> QED
      BY <2>3, <3>1
  <2>9. CASE Respond(w)
    BY <1>2, <2>1, <2>9 DEF Respond, Request, HoldsJob
  <2>10. CASE AdvanceStart(w)
    <3>1. jobs'[target[w]] = [snap[w] EXCEPT !.status = "running"]
      BY <2>1, <2>10 DEF AdvanceStart, Write
    <3>2. UNCHANGED <<target, snap>>
      BY <2>10 DEF AdvanceStart
    <3> QED
      BY <3>1, <3>2
  <2>11. \/ UNCHANGED vars
         \/ \E j \in JobId : SweepStale(j)
         \/ \E j \in JobId : AdvanceRead(w, j) \/ CancelRead(w, j) \/ RetryRead(w, j)
         \/ CreateCheck(w) \/ Serve(w) \/ Crash(w)
    BY <2>2 DEF Next
  <2>12. CASE Serve(w) \/ Crash(w)
    <3>1. \/ CreateList(w) \/ AdvanceDrained(w) \/ AdvanceStart(w) \/ Classify(w)
          \/ Enqueue(w) \/ CountCoverage(w) \/ Respond(w)
      BY <2>12 DEF Serve, Advance, Crash, CreateInsert, AdvanceStop, CommitAdvance,
                   CancelWrite, RetryNothing, RetryInsert
    <3> QED
      BY <2>7, <2>8, <2>9, <2>10, <3>1
  <2> QED
    BY <2>4, <2>5, <2>6, <2>7, <2>11, <2>12
<1> QED
  BY <1>1, <1>2 DEF CopyIsCurrent

\* One tab: the copy of a request is always current.
LEMMA CopyAlwaysCurrent == ASSUME OneTab PROVE Spec => []CopyIsCurrent
<1>1. Init => CopyIsCurrent
  BY DEF Init, CopyIsCurrent, HoldsJob, NoJob, NewJob
<1>2. IInv /\ IInv' /\ CopyIsCurrent /\ [Next]_vars => CopyIsCurrent'
  BY CopyStaysCurrent
<1> QED
  BY <1>1, <1>2, Soundness, PTL DEF Spec

\* Driven by one tab, a job that has ended never changes again.
THEOREM EndedStaysEnded == ASSUME OneTab PROVE Spec => TerminalIsFinal
<1>1. ASSUME IInv, IInv', CopyIsCurrent, [Next]_vars, NEW j \in JobId,
             jobs[j].status \in Terminal
      PROVE  jobs'[j] = jobs[j]
  <2>1. jobs \in [JobId -> Job]
    BY <1>1 DEF IInv, TypeOK, StoreTypeOK
  <2>2. jobs[j].status \notin Active /\ jobs[j].status # "absent"
    BY <1>1 DEF Terminal, Completed, Active
  <2> QED
    BY <1>1, <2>1, <2>2, StepOfTable
       DEF TableStep, RowInserted, RowWorked, RowStopped
<1>2. IInv /\ IInv' /\ CopyIsCurrent /\ [Next]_vars =>
        [\A j \in JobId : jobs[j].status \in Terminal => jobs'[j] = jobs[j]]_vars
  BY <1>1
<1> QED
  BY <1>2, Soundness, CopyAlwaysCurrent, PTL DEF TerminalIsFinal, Spec

\* Every step on the table of jobs is a step the lifecycle allows, or none.
LEMMA StepOfLifecycle ==
    ASSUME IInv, TableStep
    PROVE  [Lifecycle!Next]_(Lifecycle!vars)
<1> DEFINE status == [i \in JobId |-> jobs[i].status]
           left == [i \in JobId |-> Range(jobs[i].pending)]
<1>1. jobs \in [JobId -> Job]
  BY DEF IInv, TypeOK, StoreTypeOK
<1>2. CASE jobs' = jobs
  BY <1>2 DEF Lifecycle!vars
<1>3. ASSUME NEW j \in JobId, NEW row \in Job, jobs' = [jobs EXCEPT ![j] = row]
      PROVE  /\ status' = [status EXCEPT ![j] = row.status]
             /\ left' = [left EXCEPT ![j] = Range(row.pending)]
             /\ status[j] = jobs[j].status
             /\ left[j] = Range(jobs[j].pending)
             /\ Range(row.pending) \in SUBSET Product
  <2>1. row.pending \in Seq(Product)
    BY DEF Job
  <2>2. ASSUME NEW i \in JobId
        PROVE  jobs'[i] = IF i = j THEN row ELSE jobs[i]
    BY <1>1, <1>3
  <2>3. status' = [status EXCEPT ![j] = row.status]
    BY <2>2
  <2>4. left' = [left EXCEPT ![j] = Range(row.pending)]
    BY <2>2
  <2>5. Range(row.pending) \in SUBSET Product
    BY <2>1, ListRange
  <2> QED
    BY <2>3, <2>4, <2>5
<1>4. ASSUME NEW j \in JobId, NEW row \in Job, RowInserted(j, row)
      PROVE  Lifecycle!Create(j)
  <2>1. /\ jobs' = [jobs EXCEPT ![j] = row] /\ jobs[j].status = "absent"
        /\ row.status \in {"queued"} \cup Lifecycle!Completed
        /\ row.status \in Lifecycle!Completed => Range(row.pending) = {}
    BY <1>4, EmptyList DEF RowInserted, Lifecycle!Completed
  <2>2. /\ status[j] = "absent"
        /\ \E items \in SUBSET Product, s \in {"queued"} \cup Lifecycle!Completed :
            /\ s \in Lifecycle!Completed => items = {}
            /\ left' = [left EXCEPT ![j] = items]
            /\ status' = [status EXCEPT ![j] = s]
    <3>1. /\ status' = [status EXCEPT ![j] = row.status]
          /\ left' = [left EXCEPT ![j] = Range(row.pending)]
          /\ status[j] = jobs[j].status
          /\ left[j] = Range(jobs[j].pending)
          /\ Range(row.pending) \in SUBSET Product
      BY <2>1, <1>3
    <3> HIDE DEF status, left
    <3> QED
      BY <2>1, <3>1, Zenon
  <2> QED
    BY <2>2, Zenon DEF Lifecycle!Create
<1>5. ASSUME NEW j \in JobId, NEW row \in Job, RowWorked(j, row)
      PROVE  Lifecycle!Work(j)
  <2>1. /\ jobs' = [jobs EXCEPT ![j] = row] /\ jobs[j].status \in Lifecycle!Active
        /\ row.status \in {"running"} \cup Lifecycle!Completed
        /\ Range(row.pending) \subseteq Range(jobs[j].pending)
        /\ row.status \in Lifecycle!Completed => Range(row.pending) = {}
    BY <1>5, EmptyList
       DEF RowWorked, Lifecycle!Completed, Lifecycle!Active, Active, Completed
  <2>2. /\ status[j] \in Lifecycle!Active
        /\ \E rest \in SUBSET left[j], s \in {"running"} \cup Lifecycle!Completed :
            /\ s \in Lifecycle!Completed => rest = {}
            /\ left' = [left EXCEPT ![j] = rest]
            /\ status' = [status EXCEPT ![j] = s]
    <3>1. /\ status' = [status EXCEPT ![j] = row.status]
          /\ left' = [left EXCEPT ![j] = Range(row.pending)]
          /\ status[j] = jobs[j].status
          /\ left[j] = Range(jobs[j].pending)
          /\ Range(row.pending) \in SUBSET Product
      BY <2>1, <1>3
    <3> HIDE DEF status, left
    <3> QED
      BY <2>1, <3>1, Zenon
  <2> QED
    BY <2>2, Zenon DEF Lifecycle!Work
<1>6. ASSUME NEW j \in JobId, NEW row \in Job, RowStopped(j, row)
      PROVE  Lifecycle!Stop(j)
  <2>1. /\ jobs' = [jobs EXCEPT ![j] = row] /\ jobs[j].status \in Lifecycle!Active
        /\ row.status \in Lifecycle!Stopped
        /\ row.pending = jobs[j].pending
    BY <1>6 DEF RowStopped, Lifecycle!Stopped, Lifecycle!Active, Active
  <2>2. /\ status[j] \in Lifecycle!Active
        /\ \E s \in Lifecycle!Stopped : status' = [status EXCEPT ![j] = s]
        /\ \E rest \in SUBSET left[j] : left' = [left EXCEPT ![j] = rest]
    <3>1. /\ status' = [status EXCEPT ![j] = row.status]
          /\ left' = [left EXCEPT ![j] = Range(row.pending)]
          /\ status[j] = jobs[j].status
          /\ left[j] = Range(jobs[j].pending)
          /\ Range(row.pending) \in SUBSET Product
      BY <2>1, <1>3
    <3> HIDE DEF status, left
    <3> QED
      BY <2>1, <3>1, Zenon
  <2> QED
    BY <2>2, Zenon DEF Lifecycle!Stop
<1> QED
  BY <1>2, <1>4, <1>5, <1>6 DEF TableStep, Lifecycle!Next

\* Driven by one tab, the detailed jobs implement the lifecycle.
THEOREM OneTabImplements == ASSUME OneTab PROVE Spec => ImplementsLifecycle
<1>1. Init => Lifecycle!Init
  BY EmptyList DEF Init, Lifecycle!Init, NoJob, NewJob
<1>2. IInv /\ IInv' /\ CopyIsCurrent /\ [Next]_vars => [Lifecycle!Next]_(Lifecycle!vars)
  BY StepOfTable, StepOfLifecycle
<1> QED
  BY <1>1, <1>2, Soundness, CopyAlwaysCurrent, PTL
     DEF ImplementsLifecycle, Lifecycle!Spec, Spec

\* What is recorded of a chunk, and when a placeholder may be open.
Recorded ==
    /\ \A w \in Worker : RecordInv(w)
    /\ OpenIsCurrent

\* A step of a request that records nothing: none of its products is half way.
LEMMA NothingRecorded ==
    ASSUME OneTab, Recorded, UNCHANGED <<cls, review>>, crashes' = 0 => crashes = 0,
           NEW w \in Worker, pc[w] # "enqueue", RecordInv(w)'
    PROVE  Recorded'
<1>1. crashes = 0 => \A p \in Product : ~Unrecorded(p)
  BY DEF OneTab, Recorded, OpenIsCurrent
<1>2. \A p \in Product : Unrecorded(p)' <=> Unrecorded(p)
  BY DEF Unrecorded
<1>3. OpenIsCurrent'
  BY <1>1, <1>2 DEF OpenIsCurrent
<1> QED
  BY <1>3 DEF Recorded, OneTab

\* A request that is about to read, list or insert, or is answered, has recorded nothing.
LEMMA NothingToRecord ==
    ASSUME NEW w \in Worker,
           pc'[w] \notin {"classify", "enqueue", "count", "commit"}
    PROVE  RecordInv(w)'
BY DEF RecordInv

\* The chunk of a request is on the stored list of its job.
LEMMA ChunkIsPending ==
    ASSUME IInv, CopyIsCurrent, NEW w \in Worker, pc[w] \in HoldsJob
    PROVE  Range(jobs[target[w]].pending)
             = Range(Chunk(snap[w])) \cup Range(Remaining(snap[w]))
<1>1. snap[w] \in Job /\ jobs[target[w]].pending = snap[w].pending
  BY HeldRow
<1> QED
  BY <1>1, Slicing

\* The row of the next product is recorded, and its item is still to come.
LEMMA ClassifyRecords ==
    ASSUME OneTab, IInv, CopyIsCurrent, Recorded, NEW w \in Worker, Classify(w)
    PROVE  Recorded'
<1> DEFINE h == Head(todo[w])
<1>1. /\ pc[w] = "classify" /\ todo[w] \in Seq(Product) /\ todo[w] # <<>>
      /\ cls \in [Product -> ClsRow] /\ verdict \in [Worker -> Verdict]
      /\ Range(todo[w]) \subseteq Range(Chunk(snap[w]))
      /\ pc \in [Worker -> Pc]
  BY DEF Classify, IInv, TypeOK, StoreTypeOK, RequestTypeOK, RequestInv
<1>2. h \in Product /\ h \in Range(todo[w])
  BY <1>1, HeadAndTail
<1>3. PICK v, c : /\ v \in Verdict /\ c \in ClsAfter(v)
                  /\ cls' = [cls EXCEPT ![h] = c]
                  /\ verdict' = [verdict EXCEPT ![w] = v]
  BY DEF Classify
<1>4. /\ pc' = [pc EXCEPT ![w] = "enqueue"]
      /\ UNCHANGED <<jobs, review, snap, todo>>
  BY DEF Classify
<1>5. c = "placeholder" => v = "ai_failed"
  BY <1>3 DEF ClsAfter
<1> HIDE DEF h
<1>6. crashes' = crashes
  BY DEF Classify
<1>7. OpenIsCurrent'
  <2> SUFFICES ASSUME crashes = 0, NEW p \in Product, Unrecorded(p)'
               PROVE  pc'[w] = "enqueue" /\ Head(todo'[w]) = p
    BY <1>4, <1>6 DEF OpenIsCurrent
  <2>1. pc'[w] = "enqueue" /\ Head(todo'[w]) = h
    BY <1>1, <1>4 DEF h
  <2>2. ~Unrecorded(p)
    BY <1>1 DEF OneTab, Recorded, OpenIsCurrent
  <2>3. p = h
    BY <1>1, <1>3, <1>4, <2>2 DEF Unrecorded
  <2> QED
    BY <2>1, <2>3
<1>8. RecordInv(w)'
  <2>1. pc'[w] = "enqueue" /\ verdict'[w] = v /\ cls'[h] = c
    BY <1>1, <1>2, <1>3, <1>4
  <2>2. ASSUME NEW p \in Range(Chunk(snap[w])) \ Range(todo[w]),
               cls'[p] = "placeholder"
        PROVE  review[p] = "ai_failed"
    <3>1. p # h /\ (p \in Product => cls'[p] = cls[p])
      BY <1>1, <1>2, <1>3
    <3>2. snap[w] \in Job
      BY DEF IInv, TypeOK, RequestTypeOK
    <3>3. p \in Product
      BY <3>2, Slicing, ListRange
    <3> QED
      BY <1>1, <2>2, <3>1, <3>3 DEF Recorded, RecordInv
  <2> QED
    BY <1>4, <1>5, <2>1, <2>2 DEF RecordInv, h
<1> QED
  BY <1>7, <1>8 DEF Recorded, OneTab

\* The item of the product is queued or removed, as its row demands.
LEMMA EnqueueRecords ==
    ASSUME OneTab, IInv, CopyIsCurrent, Recorded, NEW w \in Worker, Enqueue(w)
    PROVE  Recorded'
<1> DEFINE h == Head(todo[w])
           item == ReviewAfter(verdict[w])
<1>1. /\ pc[w] = "enqueue" /\ todo[w] \in Seq(Product) /\ todo[w] # <<>>
      /\ todo \in [Worker -> Seq(Product)]
      /\ review \in [Product -> ReviewItem] /\ pc \in [Worker -> Pc]
  BY DEF Enqueue, IInv, TypeOK, StoreTypeOK, RequestTypeOK, RequestInv
<1>2. h \in Product /\ Range(todo[w]) = {h} \cup Range(Tail(todo[w]))
      /\ Tail(todo[w]) \in Seq(Product)
  BY <1>1, HeadAndTail
<1>3. /\ review' = [review EXCEPT ![h] = item]
      /\ todo' = [todo EXCEPT ![w] = Tail(todo[w])]
      /\ UNCHANGED <<jobs, cls, snap>>
      /\ pc' = [pc EXCEPT ![w] = IF Len(todo[w]) = 1 THEN "count" ELSE "classify"]
  BY DEF Enqueue
<1>4. cls[h] = "placeholder" => item = "ai_failed"
  BY <1>1 DEF Recorded, RecordInv, ReviewAfter
<1> HIDE DEF h, item
<1>5. ASSUME NEW p \in Product, cls[p] = "placeholder",
             review[p] = "ai_failed" \/ p = h
      PROVE  review'[p] = "ai_failed"
  BY <1>1, <1>2, <1>3, <1>4, <1>5
<1>6. OpenIsCurrent'
  <2>1. crashes' = crashes
    BY DEF Enqueue
  <2>2. ASSUME crashes = 0, NEW p \in Product, Unrecorded(p)'
        PROVE  FALSE
    <3>1. cls[p] = "placeholder" /\ review'[p] # "ai_failed"
      BY <1>3, <2>2 DEF Unrecorded
    <3>2. p # h /\ review[p] # "ai_failed"
      BY <1>5, <3>1
    <3>3. Unrecorded(p)
      BY <3>1, <3>2 DEF Unrecorded
    <3> QED
      BY <2>2, <3>2, <3>3 DEF OneTab, Recorded, OpenIsCurrent, h
  <2> QED
    BY <2>1, <2>2 DEF OpenIsCurrent
<1>7. RecordInv(w)'
  <2>1. pc'[w] \in {"count", "classify"} /\ todo'[w] = Tail(todo[w])
    BY <1>1, <1>2, <1>3
  <2>2. ASSUME NEW p \in Range(Chunk(snap[w])) \ Range(Tail(todo[w])),
               cls[p] = "placeholder"
        PROVE  review'[p] = "ai_failed"
    <3>1. snap[w] \in Job
      BY DEF IInv, TypeOK, RequestTypeOK
    <3>2. p \in Product
      BY <3>1, Slicing, ListRange
    <3>3. p = h \/ p \notin Range(todo[w])
      BY <1>2
    <3> QED
      BY <1>1, <1>5, <2>2, <3>2, <3>3 DEF Recorded, RecordInv
  <2> QED
    BY <1>3, <2>1, <2>2 DEF RecordInv
<1> QED
  BY <1>6, <1>7 DEF Recorded, OneTab

\* Every other step.
LEMMA RecordedStays ==
    ASSUME OneTab, IInv, CopyIsCurrent, Recorded, [Next]_vars
    PROVE  Recorded'
<1>1. /\ pc \in [Worker -> Pc] /\ crashes \in Nat
  BY DEF IInv, TypeOK, RequestTypeOK
<1>2. CASE UNCHANGED vars
  BY <1>2 DEF vars, storeVars, requestVars, Recorded, RecordInv, OpenIsCurrent, Unrecorded
<1>3. ASSUME NEW j \in JobId, SweepStale(j)
      PROVE  Recorded'
  BY <1>3 DEF SweepStale, requestVars, Recorded, RecordInv, OpenIsCurrent, Unrecorded
<1>4. ASSUME NEW w \in Worker,
             \/ \E j \in JobId : AdvanceRead(w, j) \/ CancelRead(w, j) \/ RetryRead(w, j)
             \/ CreateCheck(w) \/ CreateList(w)
             \/ CreateInsert(w) \/ RetryNothing(w) \/ RetryInsert(w)
             \/ AdvanceStop(w) \/ CancelWrite(w) \/ CommitAdvance(w)
      PROVE  Recorded'
  <2>1. UNCHANGED <<cls, review, crashes>> /\ pc[w] # "enqueue"
    BY <1>4 DEF AdvanceRead, CancelRead, RetryRead, CreateCheck, CreateList, CreateInsert,
                RetryNothing, RetryInsert, AdvanceStop, CancelWrite, CommitAdvance, storeVars
  <2>2. pc'[w] \notin {"classify", "enqueue", "count", "commit"}
    BY <1>1, <1>4 DEF AdvanceRead, CancelRead, RetryRead, CreateCheck, CreateList,
                      CreateInsert, RetryNothing, RetryInsert, AdvanceStop, CancelWrite,
                      CommitAdvance, Request, Respond
  <2> QED
    BY <2>1, <2>2, NothingToRecord, NothingRecorded
<1>5. ASSUME NEW w \in Worker, Crash(w)
      PROVE  Recorded'
  <2>1. pc'[w] = "idle" /\ crashes' # 0
    BY <1>1, <1>5 DEF Crash, Respond, Request
  <2> QED
    BY <2>1, NothingToRecord DEF OneTab, Recorded, OpenIsCurrent
<1>6. ASSUME NEW w \in Worker, AdvanceDrained(w) \/ CountCoverage(w)
      PROVE  Recorded'
  <2>1. UNCHANGED <<cls, review, snap, todo, crashes>> /\ pc[w] # "enqueue"
    BY <1>6 DEF AdvanceDrained, CountCoverage, storeVars
  <2>2. pc'[w] \in {"count", "commit"}
    BY <1>1, <1>6 DEF AdvanceDrained, CountCoverage
  <2>3. snap[w] \in Job
    BY DEF IInv, TypeOK, RequestTypeOK
  <2>4. ASSUME NEW p \in Range(Chunk(snap[w])) \ Range(todo[w]), cls[p] = "placeholder"
        PROVE  review[p] = "ai_failed"
    <3>1. CASE AdvanceDrained(w)
      <4>1. snap[w].pending = <<>>
        BY <3>1 DEF AdvanceDrained
      <4>2. Range(Chunk(snap[w])) = {}
        BY <2>3, <4>1, Slicing, EmptyList
      <4> QED
        BY <4>2
    <3>2. CASE CountCoverage(w)
      BY <2>4, <3>2 DEF CountCoverage, Recorded, RecordInv
    <3> QED
      BY <1>6, <3>1, <3>2
  <2>5. RecordInv(w)'
    BY <2>1, <2>2, <2>4 DEF RecordInv
  <2> QED
    BY <2>1, <2>5, NothingRecorded
<1>7. ASSUME NEW w \in Worker, AdvanceStart(w)
      PROVE  Recorded'
  <2>1. UNCHANGED <<cls, review, snap, crashes>> /\ pc[w] # "enqueue"
    BY <1>7 DEF AdvanceStart
  <2>2. pc'[w] = "classify" /\ todo'[w] = Chunk(snap[w])
    BY <1>1, <1>7 DEF AdvanceStart, IInv, TypeOK, RequestTypeOK
  <2>3. RecordInv(w)'
    BY <2>1, <2>2 DEF RecordInv
  <2> QED
    BY <2>1, <2>3, NothingRecorded
<1> QED
  BY <1>2, <1>3, <1>4, <1>5, <1>6, <1>7, ClassifyRecords, EnqueueRecords
     DEF Next, Serve, Advance

\* A step that changes the table strands only what it takes off an active list.
LEMMA TableStrands ==
    ASSUME IInv, NEW p \in Product, Stranded(p)', ~Stranded(p),
           UNCHANGED <<cls, review>>,
           NEW i \in JobId, NEW row \in Job,
           RowInserted(i, row) \/ RowWorked(i, row) \/ RowStopped(i, row)
    PROVE  /\ jobs[i].status \in Active /\ p \in Range(jobs[i].pending)
           /\ RowWorked(i, row) => p \notin Range(row.pending)
           /\ RowStopped(i, row) => StoppedWith(p)
<1>1. jobs \in [JobId -> Job] /\ jobs' = [jobs EXCEPT ![i] = row]
  BY DEF IInv, TypeOK, StoreTypeOK, RowInserted, RowWorked, RowStopped
<1>2. PICK j \in JobId : jobs[j].status \in Active /\ p \in Range(jobs[j].pending)
  BY DEF Stranded, Unrecorded, Listed
<1>3. ~(jobs'[j].status \in Active /\ p \in Range(jobs'[j].pending))
  BY DEF Stranded, Listed
<1>4. j = i /\ jobs'[i] = row
  BY <1>1, <1>2, <1>3
<1>5. ASSUME RowWorked(i, row) PROVE p \notin Range(row.pending)
  <2> SUFFICES ASSUME p \in Range(row.pending) PROVE FALSE
    OBVIOUS
  <2>1. row.status \in Active
    BY <1>5, EmptyList DEF RowWorked, Active
  <2> QED
    BY <1>3, <1>4, <2>1
<1>6. RowStopped(i, row) => StoppedWith(p)
  BY <1>2, <1>4 DEF RowStopped, StoppedWith
<1> QED
  BY <1>2, <1>4, <1>5, <1>6

\* A batch that is handed in leaves no placeholder of its chunk open.
LEMMA CommitStrandsNothing ==
    ASSUME IInv, CopyIsCurrent, Recorded, NEW w \in Worker, CommitAdvance(w),
           NEW p \in Product, Stranded(p)'
    PROVE  Stranded(p)
<1> DEFINE row == AfterBatch(snap[w], newFailed[w], sawFailed[w])
<1> SUFFICES ASSUME ~Stranded(p) PROVE FALSE
  OBVIOUS
<1>1. /\ pc[w] = "commit" /\ todo[w] = <<>>
      /\ newFailed[w] \in SUBSET Product /\ sawFailed[w] \in BOOLEAN
  BY DEF CommitAdvance, IInv, TypeOK, RequestTypeOK, RequestInv
<1>2. /\ target[w] \in JobId /\ snap[w] \in Job /\ jobs[target[w]].status \in Active
      /\ jobs[target[w]].pending = snap[w].pending
      /\ Range(snap[w].pending) = Range(Chunk(snap[w])) \cup Range(Remaining(snap[w]))
  BY <1>1, HeldRow, Slicing DEF HoldsJob
<1>3. /\ row \in Job /\ row.pending = Remaining(snap[w])
      /\ row.status \in {"running"} \cup Completed
      /\ Range(row.pending) \subseteq Range(snap[w].pending)
      /\ row.status \in Completed => row.pending = <<>>
  BY <1>1, <1>2, BatchOfHeldRow
<1>4. jobs' = [jobs EXCEPT ![target[w]] = row] /\ UNCHANGED <<cls, review>>
  BY DEF CommitAdvance, Write
<1> HIDE DEF row
<1>5. RowWorked(target[w], row)
  BY <1>2, <1>3, <1>4 DEF RowWorked
<1>6. p \in Range(jobs[target[w]].pending) /\ p \notin Range(row.pending)
  BY <1>2, <1>3, <1>4, <1>5, TableStrands
<1>7. p \in Range(Chunk(snap[w])) \ Range(todo[w])
  BY <1>1, <1>2, <1>3, <1>6, EmptyList
<1>8. cls[p] = "placeholder" /\ review[p] # "ai_failed"
  BY <1>4 DEF Stranded, Unrecorded
<1> QED
  BY <1>1, <1>7, <1>8 DEF Recorded, RecordInv

\* The product that a request is recording is on the list of its active job.
LEMMA HeadIsListed ==
    ASSUME IInv, CopyIsCurrent, NEW w \in Worker, pc[w] \in {"classify", "enqueue"}
    PROVE  /\ target[w] \in JobId /\ jobs[target[w]].status \in Active
           /\ Head(todo[w]) \in Range(jobs[target[w]].pending)
           /\ Head(todo[w]) \in Product
<1>1. /\ todo[w] \in Seq(Product) /\ todo[w] # <<>>
      /\ Range(todo[w]) \subseteq Range(Chunk(snap[w]))
  BY DEF IInv, TypeOK, RequestTypeOK, RequestInv
<1>2. Head(todo[w]) \in Product /\ Head(todo[w]) \in Range(todo[w])
  BY <1>1, HeadAndTail
<1> QED
  BY <1>1, <1>2, ChunkIsPending, HeldRow DEF HoldsJob

\* A stop strands something only after a request has died.
LEMMA StopStrands ==
    ASSUME OneTab, IInv, CopyIsCurrent, Recorded, NEW p \in Product,
           Unrecorded(p),
           NEW i \in JobId, jobs'[i].status \notin Active,
           \A j \in JobId \ {i} : jobs'[j] = jobs[j],
           \A w \in Worker : pc[w] \in {"classify", "enqueue"} => target[w] # i,
           ~Listed(p)'
    PROVE  crashes > 0
<1> SUFFICES ASSUME crashes = 0 PROVE FALSE
  BY DEF IInv, TypeOK
<1>1. PICK w \in Worker : pc[w] = "enqueue" /\ Head(todo[w]) = p
  BY DEF Recorded, OpenIsCurrent
<1>2. /\ target[w] \in JobId \ {i} /\ jobs[target[w]].status \in Active
      /\ p \in Range(jobs[target[w]].pending)
  BY <1>1, HeadIsListed
<1> QED
  BY <1>2 DEF Listed

\* The step of a request that stops its job, and the sweep.
LEMMA StoppingStep ==
    ASSUME OneTab, IInv, CopyIsCurrent, Recorded, NEW p \in Product,
           Stranded(p)', ~Stranded(p),
           \/ \E w \in Worker : AdvanceStop(w) \/ CancelWrite(w)
           \/ \E j \in JobId : SweepStale(j)
    PROVE  crashes > 0 /\ StoppedWith(p)
<1>1. jobs \in [JobId -> Job] /\ UNCHANGED <<cls, review>>
  BY DEF IInv, TypeOK, StoreTypeOK, AdvanceStop, CancelWrite, SweepStale
<1>2. PICK i \in JobId, row \in Job :
          /\ RowStopped(i, row)
          /\ \A w \in Worker : pc[w] \in {"classify", "enqueue"} => target[w] # i
  <2>1. ASSUME NEW w \in Worker, AdvanceStop(w) \/ CancelWrite(w)
        PROVE  \E i \in JobId, row \in Job :
                  /\ RowStopped(i, row)
                  /\ \A v \in Worker : pc[v] \in {"classify", "enqueue"} => target[v] # i
    <3>1. pc[w] \in {"advance", "cancel"}
      BY <2>1 DEF AdvanceStop, CancelWrite
    <3>2. target[w] \in JobId /\ \E row \in Job : RowStopped(target[w], row)
      BY <2>1, <3>1, StopRow, HeldRow DEF HoldsJob
    <3> QED
      BY <3>1, <3>2 DEF OneTab
  <2>2. ASSUME NEW j \in JobId, SweepStale(j)
        PROVE  \E i \in JobId, row \in Job :
                  /\ RowStopped(i, row)
                  /\ \A v \in Worker : pc[v] \in {"classify", "enqueue"} => target[v] # i
    <3> DEFINE row == [jobs[j] EXCEPT !.status = "cancelled"]
    <3>1. row \in Job /\ row.status = "cancelled" /\ row.pending = jobs[j].pending
      BY <1>1 DEF Job, Active, Terminal
    <3>2. jobs[j].status \in Active /\ jobs' = [jobs EXCEPT ![j] = row]
      BY <2>2 DEF SweepStale, Write
    <3>3. \A v \in Worker : pc[v] \in {"classify", "enqueue"} => target[v] # j
      BY <2>2 DEF SweepStale, HoldsJob
    <3> HIDE DEF row
    <3>4. RowStopped(j, row)
      BY <3>1, <3>2 DEF RowStopped
    <3> QED
      BY <3>1, <3>3, <3>4
  <2> QED
    BY <2>1, <2>2
<1>3. StoppedWith(p)
  BY <1>1, <1>2, TableStrands
<1>4. /\ jobs'[i].status \notin Active
      /\ \A j \in JobId \ {i} : jobs'[j] = jobs[j]
  BY <1>1, <1>2 DEF RowStopped, Active
<1>5. Unrecorded(p) /\ ~Listed(p)'
  BY <1>1 DEF Stranded, Unrecorded
<1>6. crashes > 0
  BY <1>2, <1>4, <1>5, StopStrands
<1> QED
  BY <1>3, <1>6

\* Every other step strands nothing.
LEMMA StepStrands ==
    ASSUME OneTab, IInv, CopyIsCurrent, Recorded, [Next]_vars,
           NEW p \in Product, Stranded(p)', ~Stranded(p)
    PROVE  crashes > 0 /\ StoppedWith(p)
<1>1. CASE UNCHANGED <<jobs, cls, review>>
  BY <1>1 DEF Stranded, Unrecorded, Listed
<1>2. ASSUME NEW w \in Worker, Classify(w)
      PROVE  FALSE
  <2>1. /\ jobs' = jobs /\ review' = review /\ pc[w] = "classify"
        /\ \E c : cls' = [cls EXCEPT ![Head(todo[w])] = c]
    BY <1>2 DEF Classify
  <2>2. cls \in [Product -> ClsRow]
    BY DEF IInv, TypeOK, StoreTypeOK
  <2>3. p # Head(todo[w])
    BY <2>1, HeadIsListed DEF Stranded, Listed
  <2>4. cls'[p] = cls[p]
    BY <2>1, <2>2, <2>3
  <2> QED
    BY <2>1, <2>4 DEF Stranded, Unrecorded, Listed
<1>3. ASSUME NEW w \in Worker, Enqueue(w)
      PROVE  FALSE
  <2>1. /\ jobs' = jobs /\ cls' = cls /\ pc[w] = "enqueue"
        /\ review' = [review EXCEPT ![Head(todo[w])] = ReviewAfter(verdict[w])]
    BY <1>3 DEF Enqueue
  <2>2. review \in [Product -> ReviewItem]
    BY DEF IInv, TypeOK, StoreTypeOK
  <2>3. p # Head(todo[w])
    BY <2>1, HeadIsListed DEF Stranded, Listed
  <2>4. review'[p] = review[p]
    BY <2>1, <2>2, <2>3
  <2> QED
    BY <2>1, <2>4 DEF Stranded, Unrecorded, Listed
<1>4. ASSUME NEW w \in Worker, CreateInsert(w) \/ RetryNothing(w) \/ RetryInsert(w)
      PROVE  FALSE
  <2>1. PICK j \in JobId, row \in Job : RowInserted(j, row)
    BY <1>4, InsertRow
  <2>2. UNCHANGED <<cls, review>>
    BY <1>4 DEF CreateInsert, RetryNothing, RetryInsert
  <2>3. jobs[j].status \in Active
    BY <2>1, <2>2, TableStrands
  <2> QED
    BY <2>1, <2>3 DEF RowInserted, Active
<1>5. ASSUME NEW w \in Worker, AdvanceStart(w)
      PROVE  FALSE
  <2>1. target[w] \in JobId /\ UNCHANGED <<cls, review>>
    BY <1>5, HeldRow DEF AdvanceStart, HoldsJob
  <2>2. PICK row \in Job :
          RowWorked(target[w], row) /\ row.pending = jobs[target[w]].pending
    BY <1>5, StartRow
  <2> QED
    BY <2>1, <2>2, TableStrands
<1>6. ASSUME NEW w \in Worker,
             \/ \E j \in JobId : AdvanceRead(w, j) \/ CancelRead(w, j) \/ RetryRead(w, j)
             \/ CreateCheck(w) \/ CreateList(w) \/ Crash(w)
             \/ AdvanceDrained(w) \/ CountCoverage(w)
      PROVE  UNCHANGED <<jobs, cls, review>>
  BY <1>6 DEF AdvanceRead, CancelRead, RetryRead, CreateCheck, CreateList, Crash,
              AdvanceDrained, CountCoverage, storeVars
<1> QED
  BY <1>1, <1>2, <1>3, <1>4, <1>5, <1>6, CommitStrandsNothing, StoppingStep
     DEF Next, Serve, Advance, vars, storeVars

\* With one tab, under either methodology: a placeholder is left behind without its
\* review item only by a stop, and only after a request has died.
THEOREM PlaceholdersAreKept == ASSUME OneTab PROVE Spec => PlaceholderNotStranded
<1>1. Init => Recorded
  BY DEF Init, Recorded, OpenIsCurrent, Unrecorded, RecordInv
<1>2. IInv /\ CopyIsCurrent /\ Recorded /\ [Next]_vars => Recorded'
  BY RecordedStays
<1>3. IInv /\ CopyIsCurrent /\ Recorded /\ [Next]_vars => [OnlyStopsStrand]_vars
  BY StepStrands DEF OnlyStopsStrand
<1> QED
  BY <1>1, <1>2, <1>3, Soundness, CopyAlwaysCurrent, PTL DEF PlaceholderNotStranded, Spec

\* What a request counted stays true until it reports it.
LEMMA CountStaysCurrent ==
    ASSUME OneTab, IInv, CountIsCurrent, [Next]_vars
    PROVE  CountIsCurrent'
<1> SUFFICES ASSUME NEW w \in Worker, pc'[w] = "commit"
             PROVE  sawFailed'[w] =
                      (Methodology = "pt" /\ \E p \in Product : review'[p] = "ai_failed")
  BY DEF CountIsCurrent
<1>1. /\ pc \in [Worker -> Pc] /\ sawFailed \in [Worker -> BOOLEAN]
  BY DEF IInv, TypeOK, RequestTypeOK
<1>2. CASE UNCHANGED <<pc, sawFailed, review>>
  BY <1>2 DEF CountIsCurrent
<1>3. CASE CountCoverage(w)
  BY <1>1, <1>3 DEF CountCoverage, storeVars
<1>4. ASSUME ~ UNCHANGED <<pc, sawFailed, review>>, ~ CountCoverage(w)
      PROVE  FALSE
  <2>1. \A v \in Worker : v = w
    BY DEF OneTab
  <2>2. \/ \E j \in JobId : AdvanceRead(w, j) \/ CancelRead(w, j) \/ RetryRead(w, j)
        \/ CreateCheck(w) \/ Serve(w) \/ Crash(w)
    BY <1>4, <2>1 DEF Next, SweepStale, vars, storeVars, requestVars
  <2>3. pc'[w] # "commit"
    BY <1>1, <1>4, <2>2
       DEF AdvanceRead, CancelRead, RetryRead, CreateCheck, Serve, Advance, Crash,
           CreateList, CreateInsert, AdvanceStop, AdvanceDrained, AdvanceStart, Classify,
           Enqueue, CommitAdvance, CancelWrite, RetryNothing, RetryInsert, Request, Respond
  <2> QED
    BY <2>3
<1> QED
  BY <1>2, <1>3, <1>4

\* A step that turns an active job into a completed one is a batch handed in without a
\* failed row in the count.
LEMMA CompletingStep ==
    ASSUME IInv, CopyIsCurrent, [Next]_vars, NEW j \in JobId,
           jobs[j].status \in Active, jobs'[j].status = "completed"
    PROVE  \E w \in Worker : CommitAdvance(w) /\ ~ sawFailed[w]
<1>1. jobs \in [JobId -> Job] /\ sawFailed \in [Worker -> BOOLEAN]
  BY DEF IInv, TypeOK, StoreTypeOK, RequestTypeOK
<1>2. jobs' # jobs
  BY DEF Active
<1>3. ASSUME NEW i \in JobId, NEW row \in Job, RowInserted(i, row) \/ RowStopped(i, row)
      PROVE  FALSE
  <2>1. jobs' = [jobs EXCEPT ![i] = row] /\ (i = j => row.status \in {"failed", "cancelled"})
    BY <1>3 DEF RowInserted, RowStopped, Active
  <2> QED
    BY <1>1, <2>1 DEF Active
<1>4. ASSUME NEW i \in JobId, SweepStale(i)
      PROVE  FALSE
  BY <1>1, <1>4 DEF SweepStale, Write, Active, Job
<1>5. ASSUME NEW w \in Worker, AdvanceStart(w)
      PROVE  FALSE
  BY <1>1, <1>5 DEF AdvanceStart, Write, Active, IInv, TypeOK, RequestTypeOK, Job
<1>6. ASSUME NEW w \in Worker, CommitAdvance(w)
      PROVE  ~ sawFailed[w]
  <2> DEFINE row == AfterBatch(snap[w], newFailed[w], sawFailed[w])
  <2>1. jobs' = [jobs EXCEPT ![target[w]] = row]
    BY <1>6 DEF CommitAdvance, Write
  <2>2. snap[w] \in Job
    BY DEF IInv, TypeOK, RequestTypeOK
  <2>3. row.status = StatusAfter(snap[w], sawFailed[w])
    BY <2>2 DEF AfterBatch, Job
  <2> HIDE DEF row
  <2>4. j = target[w] /\ row.status = "completed"
    BY <1>1, <2>1 DEF Active
  <2> QED
    BY <1>1, <2>3, <2>4 DEF StatusAfter
<1>7. PICK w \in Worker : CommitAdvance(w)
  <2>1. ASSUME NEW w \in Worker,
               \/ CreateInsert(w) \/ RetryNothing(w) \/ RetryInsert(w)
               \/ AdvanceStop(w) \/ CancelWrite(w)
        PROVE  FALSE
    BY <2>1, <1>3, InsertRow, StopRow, HeldRow DEF AdvanceStop, CancelWrite, HoldsJob
  <2>2. ASSUME NEW w \in Worker,
               \/ \E i \in JobId : AdvanceRead(w, i) \/ CancelRead(w, i) \/ RetryRead(w, i)
               \/ CreateCheck(w) \/ CreateList(w) \/ AdvanceDrained(w) \/ Classify(w)
               \/ Enqueue(w) \/ CountCoverage(w) \/ Crash(w)
        PROVE  FALSE
    BY <1>2, <2>2
       DEF AdvanceRead, CancelRead, RetryRead, CreateCheck, CreateList, AdvanceDrained,
           Classify, Enqueue, CountCoverage, Crash, storeVars
  <2>3. ~ UNCHANGED vars
    BY <1>2 DEF vars, storeVars
  <2> QED
    BY <1>4, <1>5, <2>1, <2>2, <2>3 DEF Next, Serve, Advance
<1> QED
  BY <1>6, <1>7

\* One tab, Protein Tracker: a job never ends as plain "completed" while a row of the
\* upload is queued as failed.
THEOREM FailuresAreShown ==
    ASSUME OneTab, Methodology = "pt" PROVE Spec => FailuresShow
<1>1. Init => CountIsCurrent
  BY DEF Init, CountIsCurrent
<1>2. IInv /\ CountIsCurrent /\ [Next]_vars => CountIsCurrent'
  BY CountStaysCurrent
<1>3. ASSUME IInv, CopyIsCurrent, CountIsCurrent, [Next]_vars, NEW j \in JobId,
             jobs[j].status \in Active, jobs'[j].status = "completed"
      PROVE  \A p \in Product : review'[p] # "ai_failed"
  <2>1. PICK w \in Worker : CommitAdvance(w) /\ ~ sawFailed[w]
    BY <1>3, CompletingStep
  <2>2. review' = review /\ pc[w] = "commit"
    BY <2>1 DEF CommitAdvance
  <2> QED
    BY <1>3, <2>1, <2>2 DEF CountIsCurrent
<1>4. IInv /\ CopyIsCurrent /\ CountIsCurrent /\ [Next]_vars =>
        [\A j \in JobId : jobs[j].status \in Active /\ jobs'[j].status = "completed" =>
            \A p \in Product : review'[p] # "ai_failed"]_vars
  BY <1>3
<1> QED
  BY <1>1, <1>2, <1>4, Soundness, CopyAlwaysCurrent, PTL DEF FailuresShow, Spec
=============================================================================

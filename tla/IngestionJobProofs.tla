-------------------------- MODULE IngestionJobProofs --------------------------
(***************************************************************************)
(* Proofs about IngestionJob, for any number of uploads, requests, rows    *)
(* and faults, on either store.                                            *)
(*                                                                         *)
(* Requests write stale rows over newer ones, so the invariant says of     *)
(* every copy of a row, stored or held by a request, what it would be      *)
(* right to say of the stored one: its counters add up, its pending rows   *)
(* are the ones after the processed ones, and the products table is at     *)
(* least as far as the copy.  A stale write is then harmless because the   *)
(* products table never shrinks.                                           *)
(*                                                                         *)
(* Two results ask for more.  In memory a repeated chunk changes nothing:  *)
(* every chunk starts at a multiple of the chunk size and its outcome      *)
(* depends on its rows alone (MemoryInv).  With one request at a time the  *)
(* copy it holds is the stored row (CopyIsCurrent), and the table of jobs  *)
(* implements JobLifecycle.                                                *)
(***************************************************************************)
EXTENDS IngestionJob, FiniteSetTheorems, SequenceTheorems, TLAPS

-----------------------------------------------------------------------------
(* The invariant *)

\* A copy of a job row agrees with itself, with the errors of its file and with
\* the products that are there.
Sound(row, parsed, there) ==
    /\ row.processed + Len(row.pending) = row.total
    /\ row.inserted + (row.errors - parsed) = row.processed
    /\ \A i \in 1 .. Len(row.pending) : row.pending[i] = row.processed + i
    /\ row.inserted <= Cardinality(there \cap (1 .. row.processed))
    /\ row.errors = 0 => 1 .. row.processed \subseteq there
    /\ row.status = "completed" => row.pending = <<>> /\ row.errors = 0

StoredAreSound ==
    \A j \in JobId :
        /\ Sound(jobs[j], rejected[j], products[j])
        /\ products[j] \subseteq 1 .. jobs[j].total
        /\ jobs[j].status = "absent" => jobs[j].total = 0

\* A request holds a sound copy of a row that is there.
Holds(w) ==
    LET j == target[w]
    IN  /\ Sound(snap[w], rejected[j], products[j])
        /\ jobs[j].status # "absent"
        /\ snap[w].total = jobs[j].total
        /\ snap[w].status # "absent"

CopiesAreSound == \A w \in Worker : pc[w] # "idle" => Holds(w)

\* A request that inserts has inserted what it no longer has to.
ChunkIsKept ==
    \A w \in Worker : pc[w] \in {"insert", "inserted"} =>
        /\ Range(todo[w]) \subseteq Range(Chunk(snap[w]))
        /\ Range(Chunk(snap[w])) \subseteq products[target[w]] \cup Range(todo[w])
        /\ pc[w] = "inserted" => todo[w] = <<>>

IInv == TypeOK /\ StoredAreSound /\ CopiesAreSound /\ ChunkIsKept

-----------------------------------------------------------------------------
(* Lemmas about rows *)

LEMMA RowFields ==
    ASSUME NEW row \in Job
    PROVE  /\ row.pending \in Seq(Row) /\ Len(row.pending) \in Nat
           /\ row.total \in Nat /\ row.processed \in Nat /\ row.inserted \in Nat
           /\ row.errors \in Nat /\ row.chunk \in Nat
BY DEF Job

LEMMA EmptySequence ==
    <<>> \in Seq(Row) /\ Len(<<>>) = 0 /\ Range(<<>>) = {}
BY DEF Range

\* Sets of row numbers.
LEMMA Numbers ==
    ASSUME NEW a \in Nat, NEW b \in Nat
    PROVE  /\ IsFiniteSet(a .. b)
           /\ b + 1 >= a => Cardinality(a .. b) = b - a + 1
<1>1. a \in Int /\ b \in Int
  OBVIOUS
<1>2. IsFiniteSet(a .. b) /\ Cardinality(a .. b) = IF a > b THEN 0 ELSE b - a + 1
  BY <1>1, FS_Interval, Zenon
<1> QED
  BY <1>2

LEMMA FiniteNumbers ==
    ASSUME NEW there, NEW a \in Nat, NEW b \in Nat
    PROVE  IsFiniteSet(there \cap (a .. b))
<1>1. IsFiniteSet(a .. b)
  BY Numbers
<1>2. there \cap (a .. b) \in SUBSET (a .. b)
  OBVIOUS
<1> QED
  BY <1>1, <1>2, FS_Subset, Zenon

LEMMA NoJobIsRow ==
    /\ NoJob \in Job /\ NoJob.status = "absent" /\ NoJob.total = 0
    /\ Sound(NoJob, 0, {})
<1>1. NoJob = [status |-> "absent", pending |-> <<>>, total |-> 0,
               processed |-> 0, inserted |-> 0, errors |-> 0, chunk |-> 1]
  BY EmptySequence DEF NoJob, NewJob
<1>2. NoJob \in Job
  BY <1>1, EmptySequence DEF Job, Active, Completed, Terminal
<1>3. Cardinality({} \cap (1 .. 0)) = 0
  BY FS_EmptySet
<1>4. Sound(NoJob, 0, {})
  BY <1>1, <1>3, EmptySequence DEF Sound
<1> QED
  BY <1>1, <1>2, <1>4

\* What one advance takes off the list, and what it leaves.
LEMMA ChunkAndRest ==
    ASSUME ConstantsAssumption, NEW row \in Job,
           \A i \in 1 .. Len(row.pending) : row.pending[i] = row.processed + i
    PROVE  \A m : m = Take(row) =>
           /\ m \in 0 .. Len(row.pending)
           /\ Len(Chunk(row)) = m /\ Chunk(row) \in Seq(Row)
           /\ Range(Chunk(row)) = (row.processed + 1) .. (row.processed + m)
           /\ Remaining(row) \in Seq(Row)
           /\ Len(Remaining(row)) = Len(row.pending) - m
           /\ \A i \in 1 .. Len(Remaining(row)) :
                Remaining(row)[i] = row.processed + m + i
<1> SUFFICES ASSUME NEW m, m = Take(row)
             PROVE  /\ m \in 0 .. Len(row.pending)
                    /\ Len(Chunk(row)) = m /\ Chunk(row) \in Seq(Row)
                    /\ Range(Chunk(row)) = (row.processed + 1) .. (row.processed + m)
                    /\ Remaining(row) \in Seq(Row)
                    /\ Len(Remaining(row)) = Len(row.pending) - m
                    /\ \A i \in 1 .. Len(Remaining(row)) :
                         Remaining(row)[i] = row.processed + m + i
  OBVIOUS
<1> DEFINE p == row.pending
           a == Chunk(row)
           b == Remaining(row)
<1>1. /\ p \in Seq(Row) /\ Len(p) \in Nat /\ row.processed \in Nat
      /\ row.chunk \in Nat /\ MaxChunk \in Nat \ {0}
  BY RowFields DEF ConstantsAssumption
<1>2. m \in 0 .. Len(p)
  BY <1>1 DEF Take
<1>3. a = SubSeq(p, 1, m) /\ b = SubSeq(p, m + 1, Len(p))
  BY DEF Chunk, Remaining
<1> HIDE DEF a, b
<1>4. a \in Seq(Row) /\ Len(a) = m /\ \A i \in 1 .. m : a[i] = p[i]
  BY <1>1, <1>2, <1>3, SubSeqProperties
<1>5. b \in Seq(Row) /\ Len(b) = Len(p) - m
  BY <1>1, <1>2, <1>3, SubSeqProperties
<1>6. \A i \in 1 .. Len(p) - (m + 1) + 1 : b[i] = p[(m + 1) + i - 1]
  BY <1>1, <1>2, <1>3, SubSeqProperties
<1>7. \A i \in 1 .. Len(b) : b[i] = row.processed + m + i
  <2> SUFFICES ASSUME NEW i \in 1 .. Len(b) PROVE b[i] = row.processed + m + i
    OBVIOUS
  <2>1. /\ i \in 1 .. Len(p) - (m + 1) + 1 /\ (m + 1) + i - 1 = m + i
        /\ m + i \in 1 .. Len(p) /\ i \in Nat /\ m \in Nat
    BY <1>1, <1>2, <1>5
  <2>2. b[i] = p[m + i]
    BY <2>1, <1>6
  <2>3. p[m + i] = row.processed + (m + i)
    BY <2>1
  <2> QED
    BY <2>1, <2>2, <2>3, <1>1
<1>8. Range(a) = (row.processed + 1) .. (row.processed + m)
  <2>1. Range(a) = {a[i] : i \in 1 .. m}
    BY <1>4 DEF Range
  <2>2. \A i \in 1 .. m : a[i] = row.processed + i
    BY <1>1, <1>2, <1>4
  <2>3. \A k \in (row.processed + 1) .. (row.processed + m) :
            k - row.processed \in 1 .. m /\ a[k - row.processed] = k
    BY <1>1, <1>2, <2>2
  <2>4. Range(a) \subseteq (row.processed + 1) .. (row.processed + m)
    BY <1>1, <1>2, <2>1, <2>2
  <2>5. \A k \in (row.processed + 1) .. (row.processed + m) : k \in Range(a)
    BY <2>1, <2>3
  <2> QED
    BY <2>4, <2>5
<1> QED
  BY <1>2, <1>4, <1>5, <1>7, <1>8 DEF a, b

\* A sound copy stays sound while products come in.
LEMMA SoundGrows ==
    ASSUME NEW row \in Job, NEW parsed \in Nat, NEW there, NEW more,
           Sound(row, parsed, there), there \subseteq more
    PROVE  Sound(row, parsed, more)
<1> DEFINE S == there \cap (1 .. row.processed)
           T == more \cap (1 .. row.processed)
<1>1. row.processed \in Nat /\ row.inserted \in Nat
  BY RowFields
<1>2. 1 \in Nat
  OBVIOUS
<1>3. IsFiniteSet(T) /\ S \subseteq T
  BY <1>1, <1>2, FiniteNumbers
<1>4. /\ Cardinality(S) <= Cardinality(T)
      /\ Cardinality(S) \in Nat /\ Cardinality(T) \in Nat
  BY <1>3, FS_Subset, FS_CardinalityType
<1>5. row.inserted <= Cardinality(S)
  BY DEF Sound
<1>6. row.inserted <= Cardinality(T)
  BY <1>1, <1>4, <1>5
<1> QED
  BY <1>6 DEF Sound

\* Nor does it matter what status an unfinished copy has.
LEMMA SoundStatus ==
    ASSUME NEW row \in Job, NEW parsed \in Nat, NEW there,
           Sound(row, parsed, there),
           NEW s \in Active \cup Terminal,
           s = "completed" => row.pending = <<>> /\ row.errors = 0
    PROVE  /\ [row EXCEPT !.status = s] \in Job
           /\ Sound([row EXCEPT !.status = s], parsed, there)
           /\ [row EXCEPT !.status = s].total = row.total
           /\ [row EXCEPT !.status = s].status # "absent"
<1>1. s # "absent"
  BY DEF Active, Terminal, Completed
<1> QED
  BY <1>1 DEF Sound, Job

\* Rows of a chunk that is there count as inserted.
LEMMA SoundAfterChunk ==
    ASSUME ConstantsAssumption, NEW row \in Job, NEW parsed \in Nat, NEW there,
           Sound(row, parsed, there), Range(Chunk(row)) \subseteq there
    PROVE  /\ AfterChunk(row) \in Job
           /\ Sound(AfterChunk(row), parsed, there)
           /\ AfterChunk(row).total = row.total
           /\ AfterChunk(row).status # "absent"
<1> DEFINE m == Take(row)
           rest == Remaining(row)
           st == IF rest = <<>> THEN Finished(row.errors) ELSE "running"
           q == AfterChunk(row)
           S == there \cap (1 .. row.processed)
           C == (row.processed + 1) .. (row.processed + m)
           T == there \cap (1 .. (row.processed + m))
<1>1. /\ row.processed + Len(row.pending) = row.total
      /\ row.inserted + (row.errors - parsed) = row.processed
      /\ \A i \in 1 .. Len(row.pending) : row.pending[i] = row.processed + i
      /\ row.inserted <= Cardinality(S)
      /\ row.errors = 0 => 1 .. row.processed \subseteq there
  BY DEF Sound
<1>2. /\ m \in 0 .. Len(row.pending)
      /\ Len(Chunk(row)) = m
      /\ Range(Chunk(row)) = C
      /\ rest \in Seq(Row)
      /\ Len(rest) = Len(row.pending) - m
      /\ \A i \in 1 .. Len(rest) : rest[i] = row.processed + m + i
  BY <1>1, ChunkAndRest
<1>3. q = [row EXCEPT !.status = st, !.pending = rest,
                      !.processed = row.processed + m,
                      !.inserted = row.inserted + m]
  BY <1>2 DEF AfterChunk
<1> HIDE DEF m, rest, q
<1>4. /\ row.processed \in Nat /\ row.inserted \in Nat /\ m \in Nat
      /\ row.total \in Nat /\ row.errors \in Nat
      /\ Len(row.pending) \in Nat
  BY <1>2, RowFields
<1>5. /\ st \in {"running", "completed", "completed_with_errors"}
      /\ st = "completed" => rest = <<>> /\ row.errors = 0
  BY <1>4 DEF Finished
<1> HIDE DEF st
<1>6. /\ q.pending = rest /\ q.processed = row.processed + m
      /\ q.inserted = row.inserted + m /\ q.errors = row.errors
      /\ q.total = row.total /\ q.status = st
  BY <1>3 DEF Job
<1>7. q \in Job
  <2>1. st \in Active \cup Terminal \cup {"absent"}
    BY <1>5 DEF Active, Terminal, Completed
  <2>2. row.processed + m \in Nat /\ row.inserted + m \in Nat
    BY <1>4
  <2> QED
    BY <2>1, <2>2, <1>2, <1>3 DEF Job
<1>8. row.inserted + m <= Cardinality(T)
  <2>1. IsFiniteSet(S) /\ IsFiniteSet(T)
    <3>1. 1 \in Nat /\ row.processed + m \in Nat
      BY <1>4
    <3> QED
      BY <3>1, <1>4, FiniteNumbers
  <2>2. IsFiniteSet(C) /\ Cardinality(C) = m
    <3>1. row.processed + 1 \in Nat /\ row.processed + m \in Nat
      BY <1>4
    <3>2. /\ IsFiniteSet(C)
          /\ (row.processed + m) + 1 >= row.processed + 1
                => Cardinality(C) = (row.processed + m) - (row.processed + 1) + 1
      BY <3>1, Numbers
    <3> HIDE DEF C
    <3> QED
      BY <3>2, <1>4
  <2>3. S \cap C = {} /\ S \cup C \subseteq T
    BY <1>2, <1>4
  <2> HIDE DEF S, C, T
  <2>4. Cardinality(S \cup C) = Cardinality(S) + Cardinality(C)
    <3>1. Cardinality(S \cup C)
            = Cardinality(S) + Cardinality(C) - Cardinality(S \cap C)
      BY <2>1, <2>2, FS_Union
    <3>2. Cardinality(S \cap C) = 0
      BY <2>3, FS_EmptySet
    <3>3. Cardinality(S) \in Nat
      BY <2>1, FS_CardinalityType
    <3> QED
      BY <3>1, <3>2, <3>3, <2>2, <1>4
  <2>5. Cardinality(S \cup C) <= Cardinality(T)
    BY <2>1, <2>3, FS_Subset
  <2>6. Cardinality(S) \in Nat /\ Cardinality(T) \in Nat
    BY <2>1, FS_CardinalityType
  <2>7. row.inserted <= Cardinality(S)
    BY <1>1 DEF S
  <2> QED
    BY <1>4, <2>2, <2>4, <2>5, <2>6, <2>7
<1>9. row.errors = 0 => 1 .. (row.processed + m) \subseteq there
  <2>1. 1 .. (row.processed + m) \subseteq (1 .. row.processed) \cup C
    BY <1>4
  <2> QED
    BY <2>1, <1>1, <1>2
<1>10. /\ q.processed + Len(q.pending) = q.total
       /\ q.inserted + (q.errors - parsed) = q.processed
  <2>1. (row.inserted + m) + (row.errors - parsed) = row.processed + m
    <3> DEFINE e == row.errors - parsed
    <3>1. e \in Int /\ row.inserted + e = row.processed
      BY <1>1, <1>4
    <3> HIDE DEF e
    <3>2. (row.inserted + m) + e = row.processed + m
      BY <3>1, <1>4
    <3> QED
      BY <3>2 DEF e
  <2>2. row.processed + m + (Len(row.pending) - m) = row.total
    BY <1>1, <1>4
  <2> QED
    BY <2>1, <2>2, <1>2, <1>6
<1>11. Sound(q, parsed, there)
  BY <1>2, <1>5, <1>6, <1>8, <1>9, <1>10 DEF Sound
<1> QED
  BY <1>5, <1>6, <1>7, <1>11 DEF q

\* Rows of a chunk that is given up count as errors.
LEMMA SoundAfterFailure ==
    ASSUME ConstantsAssumption, NEW row \in Job, NEW parsed \in Nat, NEW there,
           Sound(row, parsed, there)
    PROVE  /\ AfterFailure(row) \in Job
           /\ Sound(AfterFailure(row), parsed, there)
           /\ AfterFailure(row).total = row.total
           /\ AfterFailure(row).status # "absent"
<1> DEFINE m == Take(row)
           rest == Remaining(row)
           st == IF row.processed = 0 /\ row.inserted = 0 /\ rest = <<>>
                 THEN "failed" ELSE "running"
           q == AfterFailure(row)
           S == there \cap (1 .. row.processed)
           T == there \cap (1 .. (row.processed + m))
<1>1. /\ row.processed + Len(row.pending) = row.total
      /\ row.inserted + (row.errors - parsed) = row.processed
      /\ \A i \in 1 .. Len(row.pending) : row.pending[i] = row.processed + i
      /\ row.inserted <= Cardinality(S)
      /\ row.errors = 0 => 1 .. row.processed \subseteq there
  BY DEF Sound
<1>2. /\ m \in 0 .. Len(row.pending)
      /\ Len(Chunk(row)) = m
      /\ rest \in Seq(Row)
      /\ Len(rest) = Len(row.pending) - m
      /\ \A i \in 1 .. Len(rest) : rest[i] = row.processed + m + i
  BY <1>1, ChunkAndRest
<1>3. q = [row EXCEPT !.status = st, !.pending = rest,
                      !.processed = row.processed + m,
                      !.errors = row.errors + m]
  BY <1>2 DEF AfterFailure
<1> HIDE DEF m, rest, q
<1>4. /\ row.processed \in Nat /\ row.inserted \in Nat /\ m \in Nat
      /\ row.total \in Nat /\ row.errors \in Nat
      /\ Len(row.pending) \in Nat
  BY <1>2, RowFields
<1>5. st \in {"running", "failed"}
  OBVIOUS
<1> HIDE DEF st
<1>6. /\ q.pending = rest /\ q.processed = row.processed + m
      /\ q.inserted = row.inserted /\ q.errors = row.errors + m
      /\ q.total = row.total /\ q.status = st
  BY <1>3 DEF Job
<1>7. q \in Job
  <2>1. st \in Active \cup Terminal \cup {"absent"}
    BY <1>5 DEF Active, Terminal, Completed
  <2>2. row.processed + m \in Nat /\ row.errors + m \in Nat
    BY <1>4
  <2> QED
    BY <2>1, <2>2, <1>2, <1>3 DEF Job
<1>8. row.inserted <= Cardinality(T)
  <2>1. IsFiniteSet(T) /\ S \subseteq T
    <3>1. 1 \in Nat /\ row.processed + m \in Nat
      BY <1>4
    <3>2. IsFiniteSet(T)
      BY <3>1, FiniteNumbers
    <3>3. 1 .. row.processed \subseteq 1 .. (row.processed + m)
      BY <1>4
    <3> QED
      BY <3>2, <3>3
  <2> HIDE DEF S, T
  <2>2. /\ Cardinality(S) <= Cardinality(T)
        /\ Cardinality(S) \in Nat /\ Cardinality(T) \in Nat
    BY <2>1, FS_Subset, FS_CardinalityType
  <2>3. row.inserted <= Cardinality(S)
    BY <1>1 DEF S
  <2> QED
    BY <1>4, <2>2, <2>3
<1>9. q.errors = 0 => 1 .. (row.processed + m) \subseteq there
  <2>1. q.errors = 0 => m = 0 /\ row.errors = 0
    BY <1>4, <1>6
  <2> QED
    BY <2>1, <1>1, <1>4
<1>10. /\ q.processed + Len(q.pending) = q.total
       /\ q.inserted + (q.errors - parsed) = q.processed
  BY <1>1, <1>2, <1>4, <1>6
<1>11. Sound(q, parsed, there)
  BY <1>2, <1>5, <1>6, <1>8, <1>9, <1>10 DEF Sound
<1> QED
  BY <1>5, <1>6, <1>7, <1>11 DEF q

-----------------------------------------------------------------------------
(* Lemmas about requests *)

LEMMA InitIInv == ASSUME ConstantsAssumption, Init PROVE IInv
<1>1. AnyJob \in JobId
  BY DEF AnyJob, ConstantsAssumption
<1>2. TypeOK
  BY <1>1, NoJobIsRow, EmptySequence DEF Init, TypeOK, Pc
<1>3. StoredAreSound
  BY NoJobIsRow DEF Init, StoredAreSound
<1> QED
  BY <1>2, <1>3 DEF Init, IInv, CopiesAreSound, ChunkIsKept

\* A request that ends.
LEMMA RespondTypes ==
    ASSUME ConstantsAssumption, IInv, NEW w \in Worker, Respond(w)
    PROVE  /\ pc' \in [Worker -> Pc] /\ target' \in [Worker -> JobId]
           /\ snap' \in [Worker -> Job] /\ todo' \in [Worker -> Seq(Row)]
           /\ \A v \in Worker : pc'[v] # "idle" =>
                /\ v # w /\ pc'[v] = pc[v] /\ target'[v] = target[v]
                /\ snap'[v] = snap[v] /\ todo'[v] = todo[v]
<1>1. AnyJob \in JobId
  BY DEF AnyJob, ConstantsAssumption
<1> QED
  BY <1>1, NoJobIsRow, EmptySequence DEF IInv, TypeOK, Respond, Pc

\* Writing a sound row, and ending.
LEMMA FinishStep ==
    ASSUME ConstantsAssumption, IInv, NEW w \in Worker, pc[w] # "idle",
           NEW row \in Job, row.status # "absent",
           row.total = snap[w].total,
           Sound(row, rejected[target[w]], products[target[w]]),
           Write(target[w], row), Respond(w),
           UNCHANGED <<store, products, malformed, rejected>>, faults' \in Nat
    PROVE  IInv'
<1> DEFINE j == target[w]
<1>1. j \in JobId /\ Holds(w)
  BY DEF IInv, TypeOK, CopiesAreSound
<1>2. jobs' = [jobs EXCEPT ![j] = row]
  BY DEF Write
<1>3. TypeOK'
  BY <1>1, <1>2, RespondTypes DEF IInv, TypeOK
<1>4. row.total = jobs[j].total
  BY <1>1 DEF Holds
<1>5. jobs \in [JobId -> Job]
  BY DEF IInv, TypeOK
<1> HIDE DEF j
<1>6. \A i \in JobId :
        jobs'[i].total = jobs[i].total
        /\ (jobs[i].status # "absent" => jobs'[i].status # "absent")
  BY <1>2, <1>4, <1>5
<1>7. StoredAreSound'
  BY <1>1, <1>2, <1>4, <1>5 DEF IInv, StoredAreSound, j
<1>8. ASSUME NEW v \in Worker, pc'[v] # "idle"
      PROVE  /\ Holds(v)'
             /\ pc[v] # "idle" /\ pc'[v] = pc[v] /\ target'[v] = target[v]
             /\ todo'[v] = todo[v] /\ Chunk(snap[v])' = Chunk(snap[v])
  <2>1. /\ pc'[v] = pc[v] /\ target'[v] = target[v]
        /\ snap'[v] = snap[v] /\ todo'[v] = todo[v]
    BY <1>8, RespondTypes
  <2>2. Holds(v) /\ target[v] \in JobId
    BY <1>8, <2>1 DEF IInv, TypeOK, CopiesAreSound
  <2>3. Holds(v)'
    BY <2>1, <2>2, <1>6 DEF Holds
  <2>4. Chunk(snap[v])' = Chunk(snap[v])
    BY <2>1 DEF Chunk, Take
  <2> QED
    BY <1>8, <2>1, <2>3, <2>4
<1>9. CopiesAreSound'
  BY <1>8 DEF CopiesAreSound
<1>10. ChunkIsKept'
  BY <1>8 DEF IInv, ChunkIsKept
<1> QED
  BY <1>3, <1>7, <1>9, <1>10 DEF IInv

\* Products come in: nothing that was sound ceases to be.
LEMMA ProductsGrow ==
    ASSUME ConstantsAssumption, IInv, NEW w \in Worker, pc[w] # "idle",
           NEW rows \in SUBSET Row, rows \subseteq Range(Chunk(snap[w])),
           products' = [products EXCEPT ![target[w]] = @ \cup rows],
           UNCHANGED <<jobs, rejected, target, snap>>
    PROVE  /\ products' \in [JobId -> SUBSET Row]
           /\ \A j \in JobId : products[j] \subseteq products'[j]
           /\ StoredAreSound'
           /\ \A v \in Worker : pc[v] # "idle" => Holds(v)'
<1> DEFINE j == target[w]
<1>1. /\ j \in JobId /\ Holds(w) /\ snap[w] \in Job
      /\ products \in [JobId -> SUBSET Row]
  BY DEF IInv, TypeOK, CopiesAreSound
<1>2. products' \in [JobId -> SUBSET Row]
  BY <1>1
<1>3. \A i \in JobId : products[i] \subseteq products'[i]
  BY <1>1
<1>4. rows \subseteq 1 .. jobs[j].total
  <2>1. /\ \A i \in 1 .. Len(snap[w].pending) :
             snap[w].pending[i] = snap[w].processed + i
        /\ snap[w].processed + Len(snap[w].pending) = snap[w].total
        /\ snap[w].total = jobs[j].total
    BY <1>1 DEF Holds, Sound
  <2>2. PICK m \in 0 .. Len(snap[w].pending) :
            Range(Chunk(snap[w])) = (snap[w].processed + 1) .. (snap[w].processed + m)
    BY <1>1, <2>1, ChunkAndRest
  <2>3. snap[w].processed \in Nat /\ Len(snap[w].pending) \in Nat
    BY <1>1, RowFields
  <2> QED
    BY <2>1, <2>2, <2>3
<1>5. \A i \in JobId : products'[i] \subseteq 1 .. jobs[i].total
  BY <1>1, <1>4 DEF IInv, StoredAreSound
<1>6. \A i \in JobId, row \in Job :
        Sound(row, rejected[i], products[i]) => Sound(row, rejected[i], products'[i])
  BY <1>3, SoundGrows DEF IInv, TypeOK
<1>7. StoredAreSound'
  BY <1>5, <1>6 DEF IInv, TypeOK, StoredAreSound
<1>8. \A v \in Worker : pc[v] # "idle" => Holds(v)'
  BY <1>6 DEF IInv, TypeOK, CopiesAreSound, Holds
<1> QED
  BY <1>2, <1>3, <1>7, <1>8

\* The rows a store call inserts are the first of those left to do.
LEMMA PortionIsPrefix ==
    ASSUME ConstantsAssumption, NEW rows \in Seq(Row)
    PROVE  LET rest == SubSeq(rows, Len(Portion(rows)) + 1, Len(rows))
           IN  /\ Portion(rows) \in Seq(Row) /\ rest \in Seq(Row)
               /\ Range(rows) = Range(Portion(rows)) \cup Range(rest)
<1> DEFINE m == Len(Portion(rows))
           rest == SubSeq(rows, m + 1, Len(rows))
           a == Portion(rows)
<1>1. Len(rows) \in Nat /\ InsertSize \in Nat \ {0}
  BY DEF ConstantsAssumption
<1>2. PICK k \in 0 .. Len(rows) : a = SubSeq(rows, 1, k)
  <2>1. CASE store = "postgres" /\ InsertSize < Len(rows)
    BY <2>1, <1>1 DEF Portion
  <2>2. CASE ~(store = "postgres" /\ InsertSize < Len(rows))
    <3>1. SubSeq(rows, 1, Len(rows)) = rows
      BY <1>1, SubSeqProperties
    <3> QED
      BY <2>2, <3>1, <1>1 DEF Portion
  <2> QED
    BY <2>1, <2>2
<1> HIDE DEF a
<1>3. a \in Seq(Row) /\ Len(a) = k /\ \A i \in 1 .. k : a[i] = rows[i]
  BY <1>1, <1>2, SubSeqProperties
<1>4. m = k
  BY <1>3 DEF a
<1> HIDE DEF m
<1>5. rest \in Seq(Row) /\ Len(rest) = Len(rows) - k
  BY <1>1, <1>4, SubSeqProperties
<1>6. \A i \in 1 .. Len(rows) - (k + 1) + 1 : rest[i] = rows[(k + 1) + i - 1]
  BY <1>1, <1>4, SubSeqProperties
<1> HIDE DEF rest
<1>7. /\ Range(rows) = {rows[i] : i \in 1 .. Len(rows)}
      /\ Range(a) = {a[i] : i \in 1 .. k}
      /\ Range(rest) = {rest[i] : i \in 1 .. Len(rows) - k}
  BY <1>3, <1>5 DEF Range
<1>8. \A i \in 1 .. Len(rows) - k : rest[i] = rows[k + i] /\ k + i \in 1 .. Len(rows)
  <2> SUFFICES ASSUME NEW i \in 1 .. Len(rows) - k
               PROVE  rest[i] = rows[k + i] /\ k + i \in 1 .. Len(rows)
    OBVIOUS
  <2>1. i \in 1 .. Len(rows) - (k + 1) + 1 /\ (k + 1) + i - 1 = k + i
        /\ k + i \in 1 .. Len(rows)
    BY <1>1, <1>2
  <2> QED
    BY <2>1, <1>6
<1>9. Range(a) \cup Range(rest) \subseteq Range(rows)
  <2>1. \A i \in 1 .. k : i \in 1 .. Len(rows) /\ a[i] = rows[i]
    BY <1>1, <1>2, <1>3
  <2>2. Range(a) \subseteq Range(rows)
    BY <2>1, <1>7
  <2>3. Range(rest) \subseteq Range(rows)
    BY <1>7, <1>8
  <2> QED
    BY <2>2, <2>3
<1>10. ASSUME NEW i \in 1 .. Len(rows)
       PROVE  rows[i] \in Range(a) \cup Range(rest)
  <2>1. CASE i <= k
    BY <2>1, <1>2, <1>3, <1>7
  <2>2. CASE ~(i <= k)
    <3>1. i - k \in 1 .. Len(rows) - k /\ k + (i - k) = i
      BY <2>2, <1>1, <1>2
    <3> QED
      BY <3>1, <1>7, <1>8
  <2> QED
    BY <2>1, <2>2
<1>11. Range(rows) = Range(a) \cup Range(rest)
  BY <1>7, <1>9, <1>10
<1> QED
  BY <1>3, <1>5, <1>11 DEF a, m, rest

-----------------------------------------------------------------------------
(* Every step keeps the invariant *)

LEMMA CreateStep ==
    ASSUME ConstantsAssumption, IInv, NEW j \in JobId, Create(j)
    PROVE  IInv'
<1>1. PICK n \in 0 .. RowCount, c \in ChunkSize, e \in {0, 1} :
        /\ jobs' = [jobs EXCEPT ![j] = NewJob("queued", [i \in 1 .. n |-> i], e, c)]
        /\ rejected' = [rejected EXCEPT ![j] = e]
        /\ \E bad \in SUBSET (1 .. n) : malformed' = [malformed EXCEPT ![j] = bad]
  BY DEF Create, Write
<1>a. PICK bad \in SUBSET (1 .. n) : malformed' = [malformed EXCEPT ![j] = bad]
  BY <1>1
<1> DEFINE s == [i \in 1 .. n |-> i]
           row == NewJob("queued", s, e, c)
<1>2. /\ n \in Nat /\ c \in Nat /\ e \in Nat /\ 1 .. n \subseteq Row
  BY DEF ConstantsAssumption, Row
<1>3. s \in [1 .. n -> Row] /\ \A i \in 1 .. n : s[i] = i
  BY <1>2
<1>4. s \in Seq(Row) /\ Len(s) = n
  BY <1>2, <1>3
<1> HIDE DEF s
<1>5. row = [status |-> "queued", pending |-> s, total |-> n, processed |-> 0,
             inserted |-> 0, errors |-> e, chunk |-> c]
  BY <1>4 DEF NewJob
<1> HIDE DEF row
<1>6. row \in Job /\ row.status # "absent" /\ row.total = n
  BY <1>2, <1>4, <1>5 DEF Job, Active
<1>7. UNCHANGED <<store, products, pc, target, snap, todo, faults>> /\ jobs[j].status = "absent"
  BY DEF Create, requestVars
<1>8. products[j] = {} /\ products \in [JobId -> SUBSET Row] /\ jobs \in [JobId -> Job]
      /\ rejected \in [JobId -> Nat]
  <2>1. products[j] \subseteq 1 .. 0
    BY <1>7 DEF IInv, StoredAreSound
  <2> QED
    BY <2>1 DEF IInv, TypeOK
<1>9. Sound(row, e, {})
  <2>1. Cardinality({} \cap (1 .. 0)) = 0
    BY FS_EmptySet
  <2> QED
    BY <2>1, <1>2, <1>3, <1>4, <1>5 DEF Sound, s
<1>10. /\ jobs' = [jobs EXCEPT ![j] = row]
       /\ bad \in SUBSET Row
  BY <1>1, <1>2 DEF row, s
<1>11. TypeOK'
  BY <1>1, <1>a, <1>2, <1>6, <1>7, <1>8, <1>10 DEF IInv, TypeOK
<1>12. StoredAreSound'
  BY <1>1, <1>6, <1>7, <1>8, <1>9, <1>10 DEF IInv, StoredAreSound
<1>13. ASSUME NEW v \in Worker, pc[v] # "idle"
       PROVE  Holds(v)'
  <2>1. Holds(v) /\ target[v] \in JobId /\ target[v] # j
    BY <1>13, <1>7 DEF IInv, TypeOK, CopiesAreSound, Holds
  <2> QED
    BY <2>1, <1>1, <1>7, <1>8, <1>10 DEF Holds
<1>14. CopiesAreSound' /\ ChunkIsKept'
  BY <1>7, <1>13 DEF IInv, CopiesAreSound, ChunkIsKept, Chunk, Take
<1> QED
  BY <1>11, <1>12, <1>14 DEF IInv

LEMMA ReadStep ==
    ASSUME ConstantsAssumption, IInv, NEW w \in Worker, NEW j \in JobId,
           AdvanceRead(w, j)
    PROVE  IInv'
<1>1. /\ pc' = [pc EXCEPT ![w] = "advance"] /\ target' = [target EXCEPT ![w] = j]
      /\ snap' = [snap EXCEPT ![w] = jobs[j]]
      /\ jobs[j].status # "absent"
      /\ UNCHANGED <<store, jobs, products, malformed, rejected, todo, faults>>
  BY DEF AdvanceRead, Goto, storeVars, Active
<1>2. TypeOK'
  BY <1>1 DEF IInv, TypeOK, Pc
<1>3. StoredAreSound'
  BY <1>1 DEF IInv, StoredAreSound
<1>4. ASSUME NEW v \in Worker, pc'[v] # "idle"
      PROVE  Holds(v)'
  <2>1. CASE v = w
    BY <2>1, <1>1 DEF IInv, TypeOK, StoredAreSound, Holds
  <2>2. CASE v # w
    BY <2>2, <1>4, <1>1 DEF IInv, TypeOK, CopiesAreSound, Holds
  <2> QED
    BY <2>1, <2>2
<1>5. ChunkIsKept'
  <2> SUFFICES ASSUME NEW v \in Worker, pc'[v] \in {"insert", "inserted"}
               PROVE  v # w /\ pc'[v] = pc[v] /\ snap'[v] = snap[v]
                      /\ target'[v] = target[v]
    BY <1>1 DEF IInv, ChunkIsKept, Chunk, Take
  <2> QED
    BY <1>1 DEF IInv, TypeOK
<1> QED
  BY <1>2, <1>3, <1>4, <1>5 DEF IInv, CopiesAreSound

\* A request that goes on to another step with what it holds.
LEMMA MoveOn ==
    ASSUME ConstantsAssumption, IInv, NEW w \in Worker, pc[w] # "idle",
           NEW next \in Pc, NEW rows \in Seq(Row),
           pc' = [pc EXCEPT ![w] = next], todo' = [todo EXCEPT ![w] = rows],
           next \in {"insert", "inserted"} =>
                /\ Range(rows) \subseteq Range(Chunk(snap[w]))
                /\ Range(Chunk(snap[w])) \subseteq products'[target[w]] \cup Range(rows)
                /\ next = "inserted" => rows = <<>>,
           \A j \in JobId : products[j] \subseteq products'[j],
           UNCHANGED <<target, snap>>
    PROVE  /\ pc' \in [Worker -> Pc] /\ todo' \in [Worker -> Seq(Row)]
           /\ ChunkIsKept'
<1>1. pc' \in [Worker -> Pc] /\ todo' \in [Worker -> Seq(Row)]
  BY DEF IInv, TypeOK
<1>2. ASSUME NEW v \in Worker, pc'[v] \in {"insert", "inserted"}
      PROVE  /\ Range(todo'[v]) \subseteq Range(Chunk(snap[v]))
             /\ Range(Chunk(snap[v])) \subseteq products'[target[v]] \cup Range(todo'[v])
             /\ pc'[v] = "inserted" => todo'[v] = <<>>
  <2>1. CASE v = w
    <3>1. pc'[v] = next /\ todo'[v] = rows
      BY <2>1 DEF IInv, TypeOK
    <3> QED
      BY <2>1, <3>1, <1>2
  <2>2. CASE v # w
    <3>1. pc'[v] = pc[v] /\ todo'[v] = todo[v] /\ target[v] \in JobId
      BY <2>2 DEF IInv, TypeOK
    <3>2. products[target[v]] \subseteq products'[target[v]]
      BY <3>1
    <3> QED
      BY <3>1, <3>2, <1>2 DEF IInv, ChunkIsKept
  <2> QED
    BY <2>1, <2>2
<1>3. \A v \in Worker : Chunk(snap[v])' = Chunk(snap[v])
  BY DEF Chunk, Take
<1>4. ChunkIsKept'
  BY <1>2, <1>3 DEF ChunkIsKept
<1> QED
  BY <1>1, <1>4

LEMMA StartStep ==
    ASSUME ConstantsAssumption, IInv, NEW w \in Worker, AdvanceStart(w)
    PROVE  IInv'
<1> DEFINE j == target[w]
           row == [snap[w] EXCEPT !.status = "running"]
<1>1. /\ j \in JobId /\ snap[w] \in Job /\ Holds(w) /\ pc[w] # "idle"
      /\ rejected[j] \in Nat /\ jobs \in [JobId -> Job]
  BY DEF IInv, TypeOK, CopiesAreSound, AdvanceStart
<1>2. /\ row \in Job /\ Sound(row, rejected[j], products[j])
      /\ row.total = snap[w].total /\ row.status # "absent"
  BY <1>1, SoundStatus DEF Holds, Active
<1>3. /\ jobs' = [jobs EXCEPT ![j] = row] \/ jobs' = jobs
      /\ UNCHANGED <<store, products, malformed, rejected, target, snap, faults>>
  BY DEF AdvanceStart, Write
<1>4. PICK next \in {"insert", "broken"}, rows \in {Chunk(snap[w]), todo[w]} :
        /\ pc' = [pc EXCEPT ![w] = next] /\ todo' = [todo EXCEPT ![w] = rows]
        /\ next = "insert" => rows = Chunk(snap[w])
  <2>1. todo = [todo EXCEPT ![w] = todo[w]]
    BY DEF IInv, TypeOK
  <2> QED
    BY <2>1 DEF AdvanceStart, Goto
<1>5. Chunk(snap[w]) \in Seq(Row) /\ todo[w] \in Seq(Row)
  BY <1>1, ChunkAndRest DEF Holds, Sound, IInv, TypeOK
<1>6. pc' \in [Worker -> Pc] /\ todo' \in [Worker -> Seq(Row)] /\ ChunkIsKept'
  BY <1>1, <1>3, <1>4, <1>5, MoveOn DEF Pc
<1> HIDE DEF row
<1>7. TypeOK'
  <2>1. jobs' \in [JobId -> Job]
    BY <1>1, <1>2, <1>3
  <2> QED
    BY <2>1, <1>3, <1>6 DEF IInv, TypeOK
<1>8. \A i \in JobId :
        jobs'[i].total = jobs[i].total
        /\ (jobs[i].status # "absent" => jobs'[i].status # "absent")
  BY <1>1, <1>2, <1>3 DEF Holds
<1>9. StoredAreSound'
  BY <1>1, <1>2, <1>3 DEF IInv, StoredAreSound, Holds
<1>10. CopiesAreSound'
  <2> SUFFICES ASSUME NEW v \in Worker, pc'[v] # "idle" PROVE Holds(v)'
    BY DEF CopiesAreSound
  <2>1. Holds(v) /\ target[v] \in JobId
    BY <1>1, <1>4 DEF IInv, TypeOK, CopiesAreSound
  <2> QED
    BY <2>1, <1>3, <1>8 DEF Holds
<1> QED
  BY <1>6, <1>7, <1>9, <1>10 DEF IInv

LEMMA InsertStep ==
    ASSUME ConstantsAssumption, IInv, NEW w \in Worker,
           InsertRows(w) \/ InsertConflict(w) \/ InsertBreaks(w)
    PROVE  IInv'
<1> DEFINE j == target[w]
           p == Portion(todo[w])
           rest == SubSeq(todo[w], Len(p) + 1, Len(todo[w]))
<1>1. /\ pc[w] = "insert" /\ todo[w] \in Seq(Row) /\ products \in [JobId -> SUBSET Row]
      /\ j \in JobId
      /\ Range(todo[w]) \subseteq Range(Chunk(snap[w]))
      /\ Range(Chunk(snap[w])) \subseteq products[j] \cup Range(todo[w])
  BY DEF IInv, TypeOK, ChunkIsKept, InsertRows, InsertConflict, InsertBreaks
<1>2. /\ p \in Seq(Row) /\ rest \in Seq(Row)
      /\ Range(todo[w]) = Range(p) \cup Range(rest)
  BY <1>1, PortionIsPrefix
<1>3. UNCHANGED <<store, jobs, malformed, rejected, target, snap>> /\ faults' \in Nat
  BY DEF IInv, TypeOK, InsertRows, InsertConflict, InsertBreaks, storeVars
<1>4. PICK new \in {{}, Range(p)} : products' = [products EXCEPT ![j] = @ \cup new]
  <2>1. products = [products EXCEPT ![j] = @ \cup {}]
    BY <1>1
  <2> QED
    BY <2>1 DEF InsertRows, InsertConflict, InsertBreaks, AddProducts, storeVars
<1>5. Range(p) \subseteq Row
  BY <1>2 DEF Range
<1>6. new \in SUBSET Row /\ new \subseteq Range(Chunk(snap[w]))
  BY <1>1, <1>2, <1>5
<1>7. /\ products' \in [JobId -> SUBSET Row]
      /\ \A i \in JobId : products[i] \subseteq products'[i]
      /\ StoredAreSound'
      /\ \A v \in Worker : pc[v] # "idle" => Holds(v)'
  BY <1>1, <1>3, <1>4, <1>6, ProductsGrow
<1>8. /\ pc' \in [Worker -> Pc] /\ todo' \in [Worker -> Seq(Row)] /\ ChunkIsKept'
      /\ \A v \in Worker : pc'[v] # "idle" => pc[v] # "idle"
  <2>1. CASE InsertRows(w)
    <3>1. /\ todo' = [todo EXCEPT ![w] = rest]
          /\ pc' = [pc EXCEPT ![w] = IF todo'[w] = <<>> THEN "inserted" ELSE "insert"]
          /\ products' = [products EXCEPT ![j] = @ \cup Range(p)]
      BY <2>1 DEF InsertRows, Goto, AddProducts
    <3>2. todo'[w] = rest
      BY <3>1 DEF IInv, TypeOK
    <3> DEFINE next == IF rest = <<>> THEN "inserted" ELSE "insert"
    <3>3. pc' = [pc EXCEPT ![w] = next] /\ next \in Pc
      BY <3>1, <3>2 DEF Pc
    <3>4. /\ Range(rest) \subseteq Range(Chunk(snap[w]))
          /\ Range(Chunk(snap[w])) \subseteq products'[j] \cup Range(rest)
          /\ next = "inserted" => rest = <<>>
      BY <1>1, <1>2, <3>1
    <3> HIDE DEF next, rest
    <3>5. pc' \in [Worker -> Pc] /\ todo' \in [Worker -> Seq(Row)] /\ ChunkIsKept'
      BY <1>1, <1>2, <1>3, <1>7, <3>1, <3>3, <3>4, MoveOn
    <3> QED
      BY <1>1, <3>3, <3>5 DEF IInv, TypeOK
  <2>2. CASE InsertConflict(w) \/ InsertBreaks(w)
    <3>1. todo' = [todo EXCEPT ![w] = <<>>] /\ pc' = [pc EXCEPT ![w] = "broken"]
      BY <2>2 DEF InsertConflict, InsertBreaks, Goto
    <3>2. pc' \in [Worker -> Pc] /\ todo' \in [Worker -> Seq(Row)] /\ ChunkIsKept'
      BY <1>1, <1>3, <1>7, <3>1, EmptySequence, MoveOn DEF Pc
    <3> QED
      BY <1>1, <3>1, <3>2 DEF IInv, TypeOK
  <2> QED
    BY <2>1, <2>2
<1>9. TypeOK'
  BY <1>3, <1>7, <1>8 DEF IInv, TypeOK
<1>10. CopiesAreSound'
  BY <1>7, <1>8 DEF CopiesAreSound
<1> QED
  BY <1>7, <1>8, <1>9, <1>10 DEF IInv

\* The last write of a request.
LEMMA EndStep ==
    ASSUME ConstantsAssumption, IInv, NEW w \in Worker,
           AdvanceDrained(w) \/ Commit(w)
    PROVE  IInv'
<1> DEFINE j == target[w]
<1>1. /\ j \in JobId /\ snap[w] \in Job /\ pc[w] # "idle" /\ Holds(w)
      /\ rejected[j] \in Nat /\ faults' \in Nat
      /\ Sound(snap[w], rejected[j], products[j])
  BY DEF IInv, TypeOK, CopiesAreSound, AdvanceDrained, Commit, Holds
<1>2. Respond(w) /\ UNCHANGED <<store, products, malformed, rejected>>
  BY DEF AdvanceDrained, Commit
<1>3. CASE AdvanceDrained(w)
  <2> DEFINE s == Finished(snap[w].errors)
             row == [snap[w] EXCEPT !.status = s]
  <2>1. /\ s \in Active \cup Terminal
        /\ s = "completed" => snap[w].pending = <<>> /\ snap[w].errors = 0
    BY <1>1, <1>3, RowFields DEF Finished, Terminal, Completed, AdvanceDrained
  <2>2. Write(j, row)
    BY <1>3 DEF AdvanceDrained
  <2> HIDE DEF s
  <2>3. /\ row \in Job /\ row.status # "absent" /\ row.total = snap[w].total
        /\ Sound(row, rejected[j], products[j])
    BY <1>1, <2>1, SoundStatus
  <2> QED
    BY <1>1, <1>2, <2>2, <2>3, FinishStep
<1>4. CASE Commit(w)
  <2>1. CASE pc[w] = "inserted" /\ Write(j, AfterChunk(snap[w]))
    <3>1. Range(Chunk(snap[w])) \subseteq products[j]
      BY <2>1, EmptySequence DEF IInv, ChunkIsKept
    <3> QED
      BY <1>1, <1>2, <2>1, <3>1, SoundAfterChunk, FinishStep
  <2>2. CASE pc[w] = "broken" /\ Write(j, AfterFailure(snap[w]))
    BY <1>1, <1>2, <2>2, SoundAfterFailure, FinishStep
  <2> QED
    BY <1>4, <2>1, <2>2 DEF Commit
<1> QED
  BY <1>3, <1>4

LEMMA CrashStep ==
    ASSUME ConstantsAssumption, IInv, NEW w \in Worker, Crash(w)
    PROVE  IInv'
<1>1. Respond(w) /\ UNCHANGED <<store, jobs, products, malformed, rejected>>
      /\ faults' \in Nat
  BY DEF Crash, storeVars, IInv, TypeOK
<1>2. TypeOK'
  BY <1>1, RespondTypes DEF IInv, TypeOK
<1>3. StoredAreSound'
  BY <1>1 DEF IInv, StoredAreSound
<1>4. CopiesAreSound'
  BY <1>1, RespondTypes DEF IInv, CopiesAreSound, Holds
<1>5. ChunkIsKept'
  BY <1>1, RespondTypes DEF IInv, ChunkIsKept, Chunk, Take
<1> QED
  BY <1>2, <1>3, <1>4, <1>5 DEF IInv

\* The sweep completes a job only if nothing is pending or something is an error.
LEMMA SweepStep ==
    ASSUME ConstantsAssumption, IInv, NEW j \in JobId, SweepStale(j)
    PROVE  IInv'
<1> DEFINE s == SweptStatus(jobs[j])
           row == [jobs[j] EXCEPT !.status = s]
<1>1. /\ jobs[j] \in Job /\ rejected[j] \in Nat /\ jobs \in [JobId -> Job]
      /\ Sound(jobs[j], rejected[j], products[j])
      /\ products[j] \subseteq 1 .. jobs[j].total
  BY DEF IInv, TypeOK, StoredAreSound
<1>2. /\ jobs' = [jobs EXCEPT ![j] = row]
      /\ UNCHANGED <<store, products, malformed, rejected, pc, target, snap, todo, faults>>
  BY DEF SweepStale, Write, requestVars
<1>3. s \in Active \cup Terminal
  BY DEF SweptStatus, Finished, Terminal, Completed
<1>4. s = "completed" => jobs[j].pending = <<>> /\ jobs[j].errors = 0
  <2> SUFFICES ASSUME s = "completed"
               PROVE  jobs[j].pending = <<>> /\ jobs[j].errors = 0
    OBVIOUS
  <2>1. /\ jobs[j].processed >= jobs[j].total
        /\ Finished(jobs[j].errors) = "completed"
    BY DEF SweptStatus
  <2>2. jobs[j].processed + Len(jobs[j].pending) = jobs[j].total
    BY <1>1 DEF Sound
  <2>3. /\ jobs[j].processed \in Nat /\ jobs[j].total \in Nat /\ jobs[j].errors \in Nat
        /\ Len(jobs[j].pending) \in Nat /\ jobs[j].pending \in Seq(Row)
    BY <1>1, RowFields
  <2>4. Len(jobs[j].pending) = 0
    BY <2>1, <2>2, <2>3
  <2>5. jobs[j].pending = <<>>
    BY <2>3, <2>4, EmptySeq
  <2>6. jobs[j].errors = 0
    BY <2>1, <2>3 DEF Finished
  <2> QED
    BY <2>5, <2>6
<1> HIDE DEF s
<1>5. /\ row \in Job /\ row.status # "absent" /\ row.total = jobs[j].total
      /\ Sound(row, rejected[j], products[j])
  BY <1>1, <1>3, <1>4, SoundStatus
<1> HIDE DEF row
<1>6. TypeOK'
  BY <1>2, <1>5 DEF IInv, TypeOK
<1>7. StoredAreSound'
  BY <1>1, <1>2, <1>5 DEF IInv, StoredAreSound
<1>8. CopiesAreSound'
  BY <1>1, <1>2, <1>5 DEF IInv, TypeOK, CopiesAreSound, Holds
<1>9. ChunkIsKept'
  BY <1>2 DEF IInv, ChunkIsKept, Chunk, Take
<1> QED
  BY <1>6, <1>7, <1>8, <1>9 DEF IInv

LEMMA NextIInv ==
    ASSUME ConstantsAssumption, IInv, [Next]_vars
    PROVE  IInv'
<1>1. CASE UNCHANGED vars
  BY <1>1 DEF vars, storeVars, requestVars, IInv, TypeOK, StoredAreSound,
              CopiesAreSound, ChunkIsKept, Holds, Chunk, Take
<1>2. CASE Next
  BY <1>2, CreateStep, ReadStep, StartStep, InsertStep, EndStep, CrashStep, SweepStep
     DEF Next, Serve
<1> QED
  BY <1>1, <1>2

\* A server keeps the store it was started with.
LEMMA StoreStays == ASSUME [Next]_vars PROVE store' = store
BY DEF Next, Serve, Create, SweepStale, AdvanceRead, AdvanceDrained, AdvanceStart,
       InsertRows, InsertConflict, InsertBreaks, Commit, Crash, vars

LEMMA Invariance == ASSUME ConstantsAssumption PROVE Spec => []IInv
BY InitIInv, NextIInv, PTL DEF Spec

-----------------------------------------------------------------------------
(* Theorems *)

\* The tables and the requests always have their types.
THEOREM TypeCorrect == ASSUME ConstantsAssumption PROVE Spec => []TypeOK
<1>1. IInv => TypeOK
  BY DEF IInv
<1> QED
  BY <1>1, Invariance, PTL

\* However many requests advance a job at once, and whichever die: every row of
\* the file is pending, inserted or an error, once (advance_ingestion_job).
THEOREM EveryRowIsAccounted == ASSUME ConstantsAssumption PROVE Spec => []RowsAccounted
<1>1. IInv => RowsAccounted
  BY DEF IInv, StoredAreSound, Sound, RowsAccounted
<1> QED
  BY <1>1, Invariance, PTL

\* The products table is never behind the counter of a job: the rows are inserted
\* before the row of the job says so.
THEOREM NothingInsertedIsMissing ==
    ASSUME ConstantsAssumption PROVE Spec => []InsertedArePresent
<1>1. ASSUME IInv PROVE InsertedArePresent
  <2> SUFFICES ASSUME NEW j \in JobId
               PROVE  jobs[j].inserted
                        <= Cardinality(products[j] \ Range(jobs[j].pending))
    BY DEF InsertedArePresent
  <2>1. /\ jobs[j] \in Job /\ products[j] \in SUBSET Row
        /\ Sound(jobs[j], rejected[j], products[j])
        /\ products[j] \subseteq 1 .. jobs[j].total
    BY <1>1 DEF IInv, TypeOK, StoredAreSound
  <2> DEFINE row == jobs[j]
             S == products[j] \cap (1 .. row.processed)
             T == products[j] \ Range(row.pending)
  <2>2. /\ row.pending \in Seq(Row) /\ Len(row.pending) \in Nat
        /\ row.processed \in Nat /\ row.inserted \in Nat /\ row.total \in Nat
    BY <2>1, RowFields
  <2>3. /\ row.processed + Len(row.pending) = row.total
        /\ \A i \in 1 .. Len(row.pending) : row.pending[i] = row.processed + i
        /\ row.inserted <= Cardinality(S)
    BY <2>1 DEF Sound
  <2>4. S \subseteq T
    BY <2>2, <2>3 DEF Range
  <2>5. IsFiniteSet(T)
    <3>1. IsFiniteSet(1 .. row.total)
      BY <2>2, Numbers
    <3>2. T \in SUBSET (1 .. row.total)
      BY <2>1
    <3> HIDE DEF T
    <3> QED
      BY <3>1, <3>2, FS_Subset, Zenon
  <2> HIDE DEF S, T
  <2>6. /\ Cardinality(S) <= Cardinality(T)
        /\ Cardinality(S) \in Nat /\ Cardinality(T) \in Nat
    BY <2>4, <2>5, FS_Subset, FS_CardinalityType
  <2>7. row.inserted <= Cardinality(T)
    BY <2>2, <2>3, <2>6
  <2> QED
    BY <2>7 DEF T
<1> QED
  BY <1>1, Invariance, PTL

\* What a job shows that ended with errors.
Caveat(row) ==
    row.status = "completed_with_errors" =>
        row.errors > 0 /\ (store = "memory" => row.pending = <<>>)
CaveatsAreTrue == \A j \in JobId : Caveat(jobs[j])

\* A row that is written with the status of what is in it.
LEMMA CaveatWritten ==
    ASSUME IInv, CaveatsAreTrue, store' = store, NEW j \in JobId, NEW row,
           Write(j, row), Caveat(row)
    PROVE  CaveatsAreTrue'
<1>1. jobs \in [JobId -> Job]
  BY DEF IInv, TypeOK
<1> QED
  BY <1>1 DEF CaveatsAreTrue, Caveat, Write

\* A chunk ends its job with errors only when it was the last, and some are counted.
LEMMA EndCaveat ==
    ASSUME IInv, CaveatsAreTrue, NEW w \in Worker, AdvanceDrained(w) \/ Commit(w)
    PROVE  CaveatsAreTrue'
<1>1. target[w] \in JobId /\ snap[w] \in Job /\ store' = store
  BY DEF IInv, TypeOK, AdvanceDrained, Commit
<1>2. snap[w].errors \in Nat
  BY <1>1, RowFields
<1>3. CASE AdvanceDrained(w)
  <2> DEFINE row == [snap[w] EXCEPT !.status = Finished(snap[w].errors)]
  <2>1. row.status = Finished(snap[w].errors) /\ row.errors = snap[w].errors
        /\ row.pending = <<>> /\ Write(target[w], row)
    BY <1>1, <1>3 DEF AdvanceDrained, Job
  <2> HIDE DEF row
  <2>2. Caveat(row)
    BY <1>2, <2>1 DEF Caveat, Finished
  <2> QED
    BY <1>1, <2>1, <2>2, CaveatWritten
<1>4. CASE pc[w] = "inserted" /\ Write(target[w], AfterChunk(snap[w]))
  <2> DEFINE row == AfterChunk(snap[w])
             rest == Remaining(snap[w])
             st == IF rest = <<>> THEN Finished(snap[w].errors) ELSE "running"
  <2>1. row.status = st /\ row.errors = snap[w].errors /\ row.pending = rest
    BY <1>1 DEF AfterChunk, Job
  <2> HIDE DEF row, rest
  <2>2. Caveat(row)
    BY <1>2, <2>1 DEF Caveat, Finished
  <2> QED
    BY <1>1, <1>4, <2>2, CaveatWritten DEF row
<1>5. CASE pc[w] = "broken" /\ Write(target[w], AfterFailure(snap[w]))
  <2> DEFINE row == AfterFailure(snap[w])
  <2>1. row.status \in {"failed", "running"}
    BY <1>1 DEF AfterFailure, Job
  <2> HIDE DEF row
  <2>2. Caveat(row)
    BY <2>1 DEF Caveat
  <2> QED
    BY <1>1, <1>5, <2>2, CaveatWritten DEF row
<1> QED
  BY <1>3, <1>4, <1>5 DEF Commit

\* The sweep in memory ends a job with all rows processed; on Postgres with errors.
LEMMA SweepCaveat ==
    ASSUME IInv, CaveatsAreTrue, NEW j \in JobId, SweepStale(j)
    PROVE  CaveatsAreTrue'
<1> DEFINE s == SweptStatus(jobs[j])
           row == [jobs[j] EXCEPT !.status = s]
<1>1. jobs[j] \in Job /\ Sound(jobs[j], rejected[j], products[j])
  BY DEF IInv, TypeOK, StoredAreSound
<1>2. /\ jobs[j].processed \in Nat /\ jobs[j].total \in Nat /\ jobs[j].errors \in Nat
      /\ Len(jobs[j].pending) \in Nat /\ jobs[j].pending \in Seq(Row)
  BY <1>1, RowFields
<1>3. ASSUME jobs[j].processed >= jobs[j].total
      PROVE  jobs[j].pending = <<>>
  BY <1>1, <1>2, <1>3, EmptySeq DEF Sound
<1>4. Write(j, row) /\ store' = store
  BY DEF SweepStale
<1>5. row.status = s /\ row.errors = jobs[j].errors /\ row.pending = jobs[j].pending
  BY <1>1 DEF Job
<1>6. s = "completed_with_errors" =>
        jobs[j].errors > 0 /\ (store = "memory" => jobs[j].pending = <<>>)
  BY <1>2, <1>3 DEF SweptStatus, Finished
<1> HIDE DEF s, row
<1>7. Caveat(row)
  BY <1>5, <1>6 DEF Caveat
<1> QED
  BY <1>4, <1>7, CaveatWritten

LEMMA CaveatsStayTrue ==
    ASSUME IInv, CaveatsAreTrue, [Next]_vars
    PROVE  CaveatsAreTrue'
<1>1. ASSUME NEW j \in JobId, Create(j) PROVE CaveatsAreTrue'
  <2>1. PICK n \in 0 .. RowCount, c \in ChunkSize, e \in {0, 1} :
            Write(j, NewJob("queued", [i \in 1 .. n |-> i], e, c))
    BY <1>1 DEF Create
  <2>2. Caveat(NewJob("queued", [i \in 1 .. n |-> i], e, c))
    BY DEF Caveat, NewJob
  <2> QED
    BY <1>1, <2>1, <2>2, CaveatWritten DEF Create
<1>2. ASSUME NEW w \in Worker, AdvanceStart(w) PROVE CaveatsAreTrue'
  <2> DEFINE row == [snap[w] EXCEPT !.status = "running"]
  <2>1. /\ target[w] \in JobId /\ snap[w] \in Job /\ store' = store
        /\ Write(target[w], row) \/ jobs' = jobs
    BY <1>2 DEF IInv, TypeOK, AdvanceStart
  <2>2. row.status = "running"
    BY <2>1 DEF Job
  <2> HIDE DEF row
  <2>3. Caveat(row)
    BY <2>2 DEF Caveat
  <2>4. CASE Write(target[w], row)
    BY <2>1, <2>3, <2>4, CaveatWritten
  <2>5. CASE jobs' = jobs
    BY <2>1, <2>5 DEF CaveatsAreTrue, Caveat
  <2> QED
    BY <2>1, <2>4, <2>5
<1>3. ASSUME UNCHANGED <<jobs, store>> PROVE CaveatsAreTrue'
  BY <1>3 DEF CaveatsAreTrue, Caveat
<1>4. ASSUME NEW w \in Worker,
             \/ \E j \in JobId : AdvanceRead(w, j)
             \/ InsertRows(w) \/ InsertConflict(w) \/ InsertBreaks(w) \/ Crash(w)
      PROVE  UNCHANGED <<jobs, store>>
  BY <1>4 DEF AdvanceRead, InsertRows, InsertConflict, InsertBreaks, Crash, storeVars
<1> QED
  BY <1>1, <1>2, <1>3, <1>4, EndCaveat, SweepCaveat DEF Next, Serve, vars, storeVars

\* A job that ends without any error has ingested its whole file, on either store
\* and even when the stale sweep ends it; one that ends with errors shows them, and
\* in memory no row is left untried.
THEOREM CompletionIsEarned ==
    ASSUME ConstantsAssumption PROVE Spec => []CompletedMeansIngested
<1>1. ASSUME IInv, CaveatsAreTrue PROVE CompletedMeansIngested
  <2> SUFFICES ASSUME NEW j \in JobId, jobs[j].status = "completed"
               PROVE  products[j] = 1 .. jobs[j].total
    BY <1>1 DEF CompletedMeansIngested, CaveatsAreTrue, Caveat
  <2>1. /\ jobs[j] \in Job /\ Sound(jobs[j], rejected[j], products[j])
        /\ products[j] \subseteq 1 .. jobs[j].total
    BY <1>1 DEF IInv, TypeOK, StoredAreSound
  <2>2. jobs[j].processed \in Nat /\ jobs[j].total \in Nat
    BY <2>1, RowFields
  <2>3. jobs[j].processed = jobs[j].total
    BY <2>1, <2>2, EmptySequence DEF Sound
  <2> QED
    BY <2>1, <2>3 DEF Sound
<1>2. Init => CaveatsAreTrue
  BY DEF Init, CaveatsAreTrue, Caveat, NoJob, NewJob
<1>3. IInv /\ CaveatsAreTrue /\ [Next]_vars => CaveatsAreTrue'
  BY CaveatsStayTrue
<1> QED
  BY <1>1, <1>2, <1>3, Invariance, PTL DEF Spec

-----------------------------------------------------------------------------
(* In memory a repeated chunk changes nothing: whichever request works on  *)
(* it, a chunk starts at a multiple of the chunk size, and whether it      *)
(* breaks depends on its rows alone.                                       *)

\* How many rows an advance takes, unless fewer are left.
Width(chunk) ==
    LET n == IF chunk < MaxChunk THEN chunk ELSE MaxChunk
    IN  IF n < 1 THEN 1 ELSE n

Block(width, q) == (q * width + 1) .. (q * width + width)

\* The rows that share their block with a malformed one.
Broken(chunk, bad) ==
    {i \in Row : \E q \in Nat : /\ i \in Block(Width(chunk), q)
                                /\ Block(Width(chunk), q) \cap bad # {}}

\* A copy is at the start of a block, and has given up broken rows only.
Aligned(row, chunk, parsed, bad) ==
    /\ row.chunk = chunk
    /\ row.pending # <<>> => \E q \in Nat : row.processed = q * Width(chunk)
    /\ row.errors - parsed <= Cardinality(Broken(chunk, bad) \cap (1 .. row.processed))

TablesAreAligned ==
    \A j \in JobId :
        /\ Aligned(jobs[j], jobs[j].chunk, rejected[j], malformed[j])
        /\ products[j] \cap Broken(jobs[j].chunk, malformed[j]) = {}
        /\ malformed[j] \subseteq 1 .. jobs[j].total

\* A request inserts a chunk without malformed rows, and gives up one with them.
ChunkIsJudged(w) ==
    LET j == target[w]
    IN  /\ Aligned(snap[w], jobs[j].chunk, rejected[j], malformed[j])
        /\ pc[w] = "broken" => Range(Chunk(snap[w])) \cap malformed[j] # {}
        /\ pc[w] \in {"insert", "inserted"} =>
                Range(Chunk(snap[w])) \cap malformed[j] = {}
        /\ pc[w] \in {"insert", "inserted", "broken"} => snap[w].pending # <<>>

MemoryInv ==
    /\ TablesAreAligned
    /\ \A w \in Worker : pc[w] # "idle" => ChunkIsJudged(w)

\* Blocks of the same width do not overlap.
LEMMA Blocks ==
    ASSUME NEW width \in Nat \ {0}, NEW p \in Nat, NEW q \in Nat,
           NEW i, i \in Block(width, p), i \in Block(width, q)
    PROVE  p = q
<1>1. ASSUME NEW a \in Nat, NEW b \in Nat, a < b
      PROVE  Block(width, a) \cap Block(width, b) = {}
  <2>1. PICK d \in Nat : b = a + 1 + d
    <3>1. b - a - 1 \in Nat /\ b = a + 1 + (b - a - 1)
      BY <1>1
    <3> QED
      BY <3>1
  <2>2. b * width = a * width + width + d * width
    BY <2>1
  <2>3. a * width \in Nat /\ d * width \in Nat /\ b * width \in Nat
    OBVIOUS
  <2> DEFINE x == a * width
             y == d * width
             z == b * width
  <2> HIDE DEF x, y, z
  <2>4. ASSUME NEW k, k \in (x + 1) .. (x + width), k \in (z + 1) .. (z + width)
        PROVE  FALSE
    BY <2>2, <2>3, <2>4 DEF x, y, z
  <2> QED
    BY <2>4 DEF Block, x, z
<1> QED
  BY <1>1

LEMMA Widths ==
    ASSUME ConstantsAssumption, NEW row \in Job
    PROVE  /\ Width(row.chunk) \in Nat \ {0}
           /\ Take(row) = IF Width(row.chunk) < Len(row.pending) THEN Width(row.chunk)
                          ELSE Len(row.pending)
<1>1. row.chunk \in Nat /\ MaxChunk \in Nat \ {0}
  BY RowFields DEF ConstantsAssumption
<1> QED
  BY <1>1 DEF Width, Take

\* The chunk that is next is the part of a block that the file reaches.
LEMMA ChunkIsBlock ==
    ASSUME ConstantsAssumption, NEW row \in Job, NEW parsed, NEW there,
           Sound(row, parsed, there),
           NEW q \in Nat, row.processed = q * Width(row.chunk)
    PROVE  /\ Range(Chunk(row)) = Block(Width(row.chunk), q) \cap (1 .. row.total)
           /\ Range(Chunk(row))
                = (row.processed + 1) .. (row.processed + Len(Chunk(row)))
           /\ Len(Chunk(row)) \in Nat
           /\ row.processed + Len(Chunk(row)) <= row.total
           /\ Remaining(row) # <<>> =>
                row.processed + Len(Chunk(row)) = (q + 1) * Width(row.chunk)
<1> DEFINE m == Take(row)
           width == Width(row.chunk)
<1>1. /\ row.processed \in Nat /\ row.total \in Nat /\ Len(row.pending) \in Nat
      /\ row.processed + Len(row.pending) = row.total
      /\ \A i \in 1 .. Len(row.pending) : row.pending[i] = row.processed + i
  BY RowFields DEF Sound
<1>2. /\ m \in 0 .. Len(row.pending)
      /\ Len(Chunk(row)) = m
      /\ Range(Chunk(row)) = (row.processed + 1) .. (row.processed + m)
      /\ Remaining(row) \in Seq(Row)
      /\ Len(Remaining(row)) = Len(row.pending) - m
  BY <1>1, ChunkAndRest
<1>3. width \in Nat \ {0} /\ m = IF width < Len(row.pending) THEN width ELSE Len(row.pending)
  BY Widths
<1>4. Block(width, q) = (row.processed + 1) .. (row.processed + width)
  BY DEF Block
<1> HIDE DEF m, width
<1>5. (row.processed + 1) .. (row.processed + m)
        = ((row.processed + 1) .. (row.processed + width)) \cap (1 .. row.total)
  BY <1>1, <1>2, <1>3
<1>6. Remaining(row) # <<>> => m = width
  <2>1. Remaining(row) # <<>> => Len(Remaining(row)) # 0
    BY <1>2, EmptySeq
  <2> QED
    BY <1>1, <1>2, <1>3, <2>1
<1>7. (q + 1) * width = row.processed + width
  <2>1. (q + 1) * width = q * width + width
    BY <1>3
  <2> QED
    BY <2>1 DEF width
<1>8. row.processed + m <= row.total
  BY <1>1, <1>2
<1>9. m \in Nat
  BY <1>1, <1>2
<1> QED
  BY <1>2, <1>4, <1>5, <1>6, <1>7, <1>8, <1>9 DEF width

\* A chunk without malformed rows has no broken row, one with them has no other.
LEMMA ChunkIsWhole ==
    ASSUME ConstantsAssumption, NEW row \in Job, NEW parsed, NEW there,
           Sound(row, parsed, there), NEW chunk, NEW bad,
           Aligned(row, chunk, parsed, bad), row.pending # <<>>,
           bad \subseteq 1 .. row.total
    PROVE  /\ Range(Chunk(row)) \cap bad = {} =>
                Range(Chunk(row)) \cap Broken(chunk, bad) = {}
           /\ Range(Chunk(row)) \cap bad # {} => Range(Chunk(row)) \subseteq Broken(chunk, bad)
<1>1. PICK q \in Nat : row.processed = q * Width(row.chunk)
  BY DEF Aligned
<1>2. row.chunk = chunk
  BY DEF Aligned
<1> DEFINE width == Width(chunk)
           rows == Range(Chunk(row))
<1>3. rows = Block(width, q) \cap (1 .. row.total) /\ width \in Nat \ {0}
  BY <1>1, <1>2, ChunkIsBlock, Widths
<1>4. rows \subseteq Row
  <2>1. Chunk(row) \in Seq(Row)
    BY ChunkAndRest DEF Sound
  <2> QED
    BY <2>1 DEF Range
<1> HIDE DEF width, rows
<1>5. ASSUME NEW i \in rows, i \in Broken(chunk, bad)
      PROVE  rows \cap bad # {}
  <2>1. PICK p \in Nat : i \in Block(width, p) /\ Block(width, p) \cap bad # {}
    BY <1>5 DEF Broken, width
  <2>2. p = q
    BY <1>3, <1>5, <2>1, Blocks
  <2> QED
    BY <1>3, <2>1, <2>2
<1>6. ASSUME NEW i \in rows, rows \cap bad # {}
      PROVE  i \in Broken(chunk, bad)
  BY <1>3, <1>4, <1>6 DEF Broken, width
<1> QED
  BY <1>5, <1>6 DEF rows

LEMMA AlignedAfterChunk ==
    ASSUME ConstantsAssumption, NEW row \in Job, NEW parsed \in Nat, NEW there,
           Sound(row, parsed, there), NEW chunk, NEW bad,
           Aligned(row, chunk, parsed, bad), row.pending # <<>>
    PROVE  Aligned(AfterChunk(row), chunk, parsed, bad)
<1> DEFINE m == Len(Chunk(row))
           rest == Remaining(row)
           gone == Broken(chunk, bad)
           after == AfterChunk(row)
<1>1. PICK q \in Nat : row.processed = q * Width(row.chunk)
  BY DEF Aligned
<1>2. /\ row.chunk = chunk /\ row.processed \in Nat /\ row.errors \in Nat
      /\ row.errors - parsed <= Cardinality(gone \cap (1 .. row.processed))
  BY RowFields DEF Aligned
<1>3. /\ after.chunk = row.chunk /\ after.pending = rest /\ after.errors = row.errors
      /\ after.processed = row.processed + m
  BY DEF AfterChunk, Job
<1>4. m \in Nat /\ (rest # <<>> => row.processed + m = (q + 1) * Width(row.chunk))
  BY <1>1, ChunkIsBlock
<1> HIDE DEF m, rest, gone, after
<1>5. Cardinality(gone \cap (1 .. row.processed))
        <= Cardinality(gone \cap (1 .. (row.processed + m)))
  <2>1. IsFiniteSet(gone \cap (1 .. (row.processed + m)))
    <3>1. 1 \in Nat /\ row.processed + m \in Nat
      BY <1>2, <1>4
    <3> QED
      BY <3>1, FiniteNumbers
  <2>2. gone \cap (1 .. row.processed) \subseteq gone \cap (1 .. (row.processed + m))
    BY <1>2, <1>4
  <2> QED
    BY <2>1, <2>2, FS_Subset
<1>6. /\ Cardinality(gone \cap (1 .. row.processed)) \in Nat
      /\ Cardinality(gone \cap (1 .. (row.processed + m))) \in Nat
  <2>1. row.processed + m \in Nat
    BY <1>2, <1>4
  <2> QED
    BY <1>2, <2>1, FiniteNumbers, FS_CardinalityType
<1>7. after.errors - parsed <= Cardinality(gone \cap (1 .. after.processed))
  <2>1. row.errors - parsed <= Cardinality(gone \cap (1 .. (row.processed + m)))
    BY <1>2, <1>5, <1>6
  <2> QED
    BY <1>3, <2>1
<1>8. after.pending # <<>> => \E p \in Nat : after.processed = p * Width(chunk)
  BY <1>2, <1>3, <1>4
<1> QED
  BY <1>2, <1>3, <1>7, <1>8 DEF Aligned, gone, after

LEMMA AlignedAfterFailure ==
    ASSUME ConstantsAssumption, NEW row \in Job, NEW parsed \in Nat, NEW there,
           Sound(row, parsed, there), NEW chunk, NEW bad,
           Aligned(row, chunk, parsed, bad), row.pending # <<>>,
           bad \subseteq 1 .. row.total, Range(Chunk(row)) \cap bad # {}
    PROVE  Aligned(AfterFailure(row), chunk, parsed, bad)
<1> DEFINE m == Len(Chunk(row))
           rest == Remaining(row)
           gone == Broken(chunk, bad)
           after == AfterFailure(row)
           S == gone \cap (1 .. row.processed)
           C == (row.processed + 1) .. (row.processed + m)
           T == gone \cap (1 .. (row.processed + m))
<1>1. PICK q \in Nat : row.processed = q * Width(row.chunk)
  BY DEF Aligned
<1>2. /\ row.chunk = chunk /\ row.processed \in Nat /\ row.errors \in Nat
      /\ row.errors - parsed <= Cardinality(S)
  BY RowFields DEF Aligned
<1>3. /\ after.chunk = row.chunk /\ after.pending = rest /\ after.errors = row.errors + m
      /\ after.processed = row.processed + m
  BY DEF AfterFailure, Job
<1>4. /\ m \in Nat /\ Range(Chunk(row)) = C
      /\ rest # <<>> => row.processed + m = (q + 1) * Width(row.chunk)
  BY <1>1, ChunkIsBlock
<1>5. C \subseteq gone
  BY <1>4, ChunkIsWhole
<1> HIDE DEF m, rest, gone, after
<1>6. IsFiniteSet(S) /\ IsFiniteSet(C) /\ IsFiniteSet(T) /\ Cardinality(C) = m
  <2>1. 1 \in Nat /\ row.processed + 1 \in Nat /\ row.processed + m \in Nat
    BY <1>2, <1>4
  <2>2. IsFiniteSet(S) /\ IsFiniteSet(T)
    BY <1>2, <2>1, FiniteNumbers
  <2>3. /\ IsFiniteSet(C)
        /\ (row.processed + m) + 1 >= row.processed + 1
              => Cardinality(C) = (row.processed + m) - (row.processed + 1) + 1
    BY <2>1, Numbers
  <2> HIDE DEF C
  <2> QED
    BY <1>2, <1>4, <2>2, <2>3
<1>7. S \cap C = {} /\ S \cup C = T
  BY <1>2, <1>4, <1>5
<1> HIDE DEF S, C, T
<1>8. Cardinality(T) = Cardinality(S) + m /\ Cardinality(S) \in Nat
  <2>1. Cardinality(S \cup C) = Cardinality(S) + Cardinality(C) - Cardinality(S \cap C)
    BY <1>6, FS_Union
  <2>2. Cardinality(S \cap C) = 0
    BY <1>7, FS_EmptySet
  <2>3. Cardinality(S) \in Nat
    BY <1>6, FS_CardinalityType
  <2>4. Cardinality(T) = Cardinality(S \cup C)
    BY <1>7
  <2>5. Cardinality(C) = m
    BY <1>6
  <2> QED
    BY <1>4, <2>1, <2>2, <2>3, <2>4, <2>5
<1>9. after.errors - parsed <= Cardinality(T)
  BY <1>2, <1>3, <1>4, <1>8
<1>10. after.pending # <<>> => \E p \in Nat : after.processed = p * Width(chunk)
  BY <1>2, <1>3, <1>4
<1> QED
  BY <1>2, <1>3, <1>9, <1>10 DEF Aligned, gone, after, T

LEMMA MemoryInit == ASSUME ConstantsAssumption, Init PROVE MemoryInv
<1>1. NoJob.pending = <<>> /\ NoJob.errors = 0 /\ NoJob.processed = 0
  BY DEF NoJob, NewJob
<1>2. \A set : Cardinality(set \cap (1 .. 0)) = 0
  <2>1. \A set : set \cap (1 .. 0) = {}
    OBVIOUS
  <2> QED
    BY <2>1, FS_EmptySet
<1>3. Aligned(NoJob, NoJob.chunk, 0, {})
  BY <1>1, <1>2 DEF Aligned
<1> QED
  BY <1>3 DEF Init, MemoryInv, TablesAreAligned

\* A row that is given another status is as aligned as before.
LEMMA AlignedStatus ==
    ASSUME NEW row \in Job, NEW chunk, NEW parsed, NEW bad, NEW s,
           Aligned(row, chunk, parsed, bad)
    PROVE  Aligned([row EXCEPT !.status = s], chunk, parsed, bad)
<1> DEFINE new == [row EXCEPT !.status = s]
<1>1. /\ new.chunk = row.chunk /\ new.pending = row.pending
      /\ new.processed = row.processed /\ new.errors = row.errors
  BY DEF Job
<1> HIDE DEF new
<1> QED
  BY <1>1 DEF Aligned, new

\* A row is written that is aligned, while nothing else moves on the table.
LEMMA WriteRow ==
    ASSUME ConstantsAssumption, IInv, MemoryInv, NEW j \in JobId, NEW row,
           jobs' = [jobs EXCEPT ![j] = row],
           Aligned(row, jobs[j].chunk, rejected[j], malformed[j]),
           row.total = jobs[j].total,
           UNCHANGED <<products, malformed, rejected>>
    PROVE  /\ TablesAreAligned'
           /\ \A i \in JobId : jobs'[i].chunk = jobs[i].chunk
<1>1. jobs \in [JobId -> Job]
  BY DEF IInv, TypeOK
<1>2. /\ \A i \in JobId : jobs'[i] = IF i = j THEN row ELSE jobs[i]
      /\ row.chunk = jobs[j].chunk
  BY <1>1 DEF Aligned
<1>3. \A i \in JobId : jobs'[i].chunk = jobs[i].chunk /\ jobs'[i].total = jobs[i].total
  BY <1>2
<1> QED
  BY <1>2, <1>3 DEF MemoryInv, TablesAreAligned

\* A request that holds what it held, at a step where the chunk was judged.
LEMMA StillJudged ==
    ASSUME IInv, MemoryInv, NEW w \in Worker, pc[w] # "idle",
           UNCHANGED <<malformed, rejected>>,
           \A i \in JobId : jobs'[i].chunk = jobs[i].chunk,
           pc'[w] = pc[w], target'[w] = target[w], snap'[w] = snap[w]
    PROVE  ChunkIsJudged(w)'
<1>1. ChunkIsJudged(w) /\ target[w] \in JobId
  BY DEF IInv, TypeOK, MemoryInv
<1>2. Chunk(snap[w])' = Chunk(snap[w])
  BY DEF Chunk, Take
<1> QED
  BY <1>1, <1>2 DEF ChunkIsJudged

LEMMA MemoryEnd ==
    ASSUME ConstantsAssumption, IInv, MemoryInv, NEW w \in Worker,
           AdvanceDrained(w) \/ Commit(w) \/ Crash(w)
    PROVE  MemoryInv'
<1> DEFINE j == target[w]
<1>1. /\ j \in JobId /\ snap[w] \in Job /\ rejected[j] \in Nat /\ pc[w] # "idle"
      /\ Sound(snap[w], rejected[j], products[j]) /\ snap[w].total = jobs[j].total
      /\ jobs \in [JobId -> Job]
  BY DEF IInv, TypeOK, CopiesAreSound, Holds, AdvanceDrained, Commit, Crash
<1>2. /\ Aligned(snap[w], jobs[j].chunk, rejected[j], malformed[j])
      /\ malformed[j] \subseteq 1 .. snap[w].total
      /\ pc[w] = "broken" => Range(Chunk(snap[w])) \cap malformed[j] # {}
      /\ pc[w] \in {"inserted", "broken"} => snap[w].pending # <<>>
  BY <1>1 DEF MemoryInv, TablesAreAligned, ChunkIsJudged
<1>3. Respond(w) /\ UNCHANGED <<products, malformed, rejected>>
  BY DEF AdvanceDrained, Commit, Crash, storeVars
<1>4. /\ TablesAreAligned'
      /\ \A i \in JobId : jobs'[i].chunk = jobs[i].chunk
  <2>1. CASE AdvanceDrained(w)
    <3> DEFINE row == [snap[w] EXCEPT !.status = Finished(snap[w].errors)]
    <3>1. Aligned(row, jobs[j].chunk, rejected[j], malformed[j])
      BY <1>1, <1>2, AlignedStatus
    <3>2. row.total = jobs[j].total
      BY <1>1 DEF Job
    <3>3. jobs' = [jobs EXCEPT ![j] = row]
      BY <2>1 DEF AdvanceDrained, Write
    <3> HIDE DEF row
    <3> QED
      BY <1>1, <1>3, <3>1, <3>2, <3>3, WriteRow
  <2>2. CASE pc[w] = "inserted" /\ Write(j, AfterChunk(snap[w]))
    <3>1. Aligned(AfterChunk(snap[w]), jobs[j].chunk, rejected[j], malformed[j])
      BY <1>1, <1>2, <2>2, AlignedAfterChunk
    <3>2. AfterChunk(snap[w]).total = jobs[j].total
      BY <1>1 DEF AfterChunk, Job
    <3> QED
      BY <1>1, <1>3, <2>2, <3>1, <3>2, WriteRow DEF Write
  <2>3. CASE pc[w] = "broken" /\ Write(j, AfterFailure(snap[w]))
    <3>1. Aligned(AfterFailure(snap[w]), jobs[j].chunk, rejected[j], malformed[j])
      BY <1>1, <1>2, <2>3, AlignedAfterFailure
    <3>2. AfterFailure(snap[w]).total = jobs[j].total
      BY <1>1 DEF AfterFailure, Job
    <3> QED
      BY <1>1, <1>3, <2>3, <3>1, <3>2, WriteRow DEF Write
  <2>4. CASE Crash(w)
    BY <1>3, <2>4 DEF Crash, storeVars, MemoryInv, TablesAreAligned
  <2> QED
    BY <2>1, <2>2, <2>3, <2>4 DEF Commit
<1>5. \A v \in Worker : pc'[v] # "idle" => ChunkIsJudged(v)'
  BY <1>3, <1>4, RespondTypes, StillJudged
<1> QED
  BY <1>4, <1>5 DEF MemoryInv

LEMMA MemoryCreate ==
    ASSUME ConstantsAssumption, IInv, MemoryInv, NEW j \in JobId, Create(j)
    PROVE  MemoryInv'
<1>1. PICK n \in 0 .. RowCount, c \in ChunkSize, e \in {0, 1} :
        /\ jobs' = [jobs EXCEPT ![j] = NewJob("queued", [i \in 1 .. n |-> i], e, c)]
        /\ rejected' = [rejected EXCEPT ![j] = e]
        /\ \E bad \in SUBSET (1 .. n) : malformed' = [malformed EXCEPT ![j] = bad]
  BY DEF Create, Write
<1>2. PICK bad \in SUBSET (1 .. n) : malformed' = [malformed EXCEPT ![j] = bad]
  BY <1>1
<1> DEFINE row == NewJob("queued", [i \in 1 .. n |-> i], e, c)
<1>3. /\ row.processed = 0 /\ row.errors = e /\ row.chunk = c /\ row.total = n
      /\ n \in Nat /\ e \in Nat
  BY DEF NewJob, ConstantsAssumption
<1> HIDE DEF row
<1>4. /\ jobs \in [JobId -> Job] /\ rejected \in [JobId -> Nat]
      /\ malformed \in [JobId -> SUBSET Row]
      /\ jobs[j].status = "absent" /\ products[j] = {}
      /\ UNCHANGED <<products, pc, target, snap>>
  <2>1. jobs[j].status = "absent" /\ UNCHANGED <<products, pc, target, snap>>
    BY DEF Create, requestVars
  <2>2. products[j] \subseteq 1 .. 0
    BY <2>1 DEF IInv, StoredAreSound
  <2> QED
    BY <2>1, <2>2 DEF IInv, TypeOK
<1>5. Aligned(row, c, e, bad)
  <2>1. 0 = 0 * Width(c) /\ 0 \in Nat
    <3>1. jobs'[j] = row
      BY <1>1, <1>4 DEF row
    <3>2. Width(c) \in Nat
      BY <1>1 DEF Width, ConstantsAssumption
    <3> QED
      BY <3>2
  <2>2. Broken(c, bad) \cap (1 .. 0) = {}
    OBVIOUS
  <2>3. Cardinality(Broken(c, bad) \cap (1 .. row.processed)) = 0
    BY <1>3, <2>2, FS_EmptySet
  <2>4. row.errors - e = 0
    BY <1>3
  <2> QED
    BY <1>3, <2>1, <2>3, <2>4 DEF Aligned
<1>6. ASSUME NEW i \in JobId
      PROVE  /\ jobs'[i] = IF i = j THEN row ELSE jobs[i]
             /\ rejected'[i] = IF i = j THEN e ELSE rejected[i]
             /\ malformed'[i] = IF i = j THEN bad ELSE malformed[i]
  BY <1>1, <1>2, <1>4 DEF row
<1>7. TablesAreAligned'
  <2> SUFFICES ASSUME NEW i \in JobId
               PROVE  /\ Aligned(jobs'[i], jobs'[i].chunk, rejected'[i], malformed'[i])
                      /\ products[i] \cap Broken(jobs'[i].chunk, malformed'[i]) = {}
                      /\ malformed'[i] \subseteq 1 .. jobs'[i].total
    BY <1>4 DEF TablesAreAligned
  <2>1. CASE i = j
    BY <1>2, <1>3, <1>4, <1>5, <1>6, <2>1
  <2>2. CASE i # j
    BY <1>6, <2>2 DEF MemoryInv, TablesAreAligned
  <2> QED
    BY <2>1, <2>2
<1>8. ASSUME NEW w \in Worker, pc[w] # "idle"
      PROVE  ChunkIsJudged(w)'
  <2>1. target[w] \in JobId /\ target[w] # j
    BY <1>4, <1>8 DEF IInv, TypeOK, CopiesAreSound, Holds
  <2>2. Chunk(snap[w])' = Chunk(snap[w])
    BY <1>4 DEF Chunk, Take
  <2>3. ChunkIsJudged(w)
    BY <1>8 DEF MemoryInv
  <2> QED
    BY <1>4, <1>6, <2>1, <2>2, <2>3 DEF ChunkIsJudged
<1> QED
  BY <1>4, <1>7, <1>8 DEF MemoryInv

LEMMA MemoryRead ==
    ASSUME ConstantsAssumption, IInv, MemoryInv, NEW w \in Worker, NEW j \in JobId,
           AdvanceRead(w, j)
    PROVE  MemoryInv'
<1>1. /\ pc' = [pc EXCEPT ![w] = "advance"] /\ target' = [target EXCEPT ![w] = j]
      /\ snap' = [snap EXCEPT ![w] = jobs[j]]
      /\ UNCHANGED <<jobs, products, malformed, rejected>>
      /\ pc \in [Worker -> Pc] /\ target \in [Worker -> JobId]
      /\ snap \in [Worker -> Job]
  BY DEF AdvanceRead, Goto, storeVars, IInv, TypeOK
<1>2. TablesAreAligned'
  BY <1>1 DEF MemoryInv, TablesAreAligned
<1>3. ASSUME NEW v \in Worker, pc'[v] # "idle"
      PROVE  ChunkIsJudged(v)'
  <2>1. CASE v = w
    <3>1. pc'[v] = "advance" /\ target'[v] = j /\ snap'[v] = jobs[j]
      BY <1>1, <2>1
    <3> QED
      BY <1>1, <3>1 DEF ChunkIsJudged, MemoryInv, TablesAreAligned
  <2>2. CASE v # w
    <3>1. pc'[v] = pc[v] /\ target'[v] = target[v] /\ snap'[v] = snap[v]
      BY <1>1, <2>2
    <3> QED
      BY <1>1, <1>3, <3>1, StillJudged
  <2> QED
    BY <2>1, <2>2
<1> QED
  BY <1>2, <1>3 DEF MemoryInv

LEMMA MemoryStart ==
    ASSUME ConstantsAssumption, IInv, MemoryInv, NEW w \in Worker, AdvanceStart(w)
    PROVE  MemoryInv'
<1> DEFINE j == target[w]
           row == [snap[w] EXCEPT !.status = "running"]
<1>1. /\ j \in JobId /\ snap[w] \in Job /\ pc[w] = "advance"
      /\ snap[w].total = jobs[j].total
      /\ Aligned(snap[w], jobs[j].chunk, rejected[j], malformed[j])
      /\ jobs \in [JobId -> Job] /\ pc \in [Worker -> Pc]
  BY DEF IInv, TypeOK, CopiesAreSound, Holds, AdvanceStart, MemoryInv, ChunkIsJudged
<1>2. Aligned(row, jobs[j].chunk, rejected[j], malformed[j]) /\ row.total = jobs[j].total
  BY <1>1, AlignedStatus DEF Job
<1>3. /\ jobs' = [jobs EXCEPT ![j] = row] \/ jobs' = jobs
      /\ UNCHANGED <<products, malformed, rejected, target, snap>>
  BY DEF AdvanceStart, Write
<1> HIDE DEF row
<1>4. TablesAreAligned' /\ \A i \in JobId : jobs'[i].chunk = jobs[i].chunk
  <2>1. CASE jobs' = jobs
    BY <1>3, <2>1 DEF MemoryInv, TablesAreAligned
  <2>2. CASE jobs' = [jobs EXCEPT ![j] = row]
    BY <1>1, <1>2, <1>3, <2>2, WriteRow
  <2> QED
    BY <1>3, <2>1, <2>2
<1>5. ASSUME NEW v \in Worker, pc'[v] # "idle"
      PROVE  ChunkIsJudged(v)'
  <2>1. CASE v = w
    <3>1. Chunk(snap[w])' = Chunk(snap[w])
      BY <1>3 DEF Chunk, Take
    <3>2. /\ pc'[w] \in {"insert", "broken"} /\ snap[w].pending # <<>>
          /\ pc'[w] = "insert" => Range(Chunk(snap[w])) \cap malformed[j] = {}
          /\ pc'[w] = "broken" => Range(Chunk(snap[w])) \cap malformed[j] # {}
      BY <1>1 DEF AdvanceStart, Goto
    <3> QED
      BY <1>1, <1>3, <1>4, <2>1, <3>1, <3>2 DEF ChunkIsJudged
  <2>2. CASE v # w
    <3>1. pc'[v] = pc[v]
      BY <1>1, <2>2 DEF AdvanceStart, Goto
    <3> QED
      BY <1>3, <1>4, <1>5, <3>1, StillJudged
  <2> QED
    BY <2>1, <2>2
<1> QED
  BY <1>4, <1>5 DEF MemoryInv

\* In memory nothing refuses or breaks an insert.
LEMMA MemoryInsert ==
    ASSUME ConstantsAssumption, store = "memory", IInv, MemoryInv, NEW w \in Worker,
           InsertRows(w) \/ InsertConflict(w) \/ InsertBreaks(w)
    PROVE  MemoryInv'
<1>1. InsertRows(w)
  BY DEF InsertConflict, InsertBreaks, Conflict
<1> DEFINE j == target[w]
           rows == Range(Portion(todo[w]))
<1>2. /\ j \in JobId /\ snap[w] \in Job /\ pc[w] = "insert"
      /\ Sound(snap[w], rejected[j], products[j]) /\ snap[w].total = jobs[j].total
      /\ products \in [JobId -> SUBSET Row] /\ todo[w] \in Seq(Row)
      /\ Range(todo[w]) \subseteq Range(Chunk(snap[w])) /\ pc \in [Worker -> Pc]
  BY <1>1 DEF IInv, TypeOK, CopiesAreSound, Holds, ChunkIsKept, InsertRows
<1>3. /\ Aligned(snap[w], jobs[j].chunk, rejected[j], malformed[j])
      /\ Range(Chunk(snap[w])) \cap malformed[j] = {} /\ snap[w].pending # <<>>
      /\ malformed[j] \subseteq 1 .. snap[w].total
  BY <1>2 DEF MemoryInv, TablesAreAligned, ChunkIsJudged
<1>4. rows \subseteq Range(Chunk(snap[w]))
  BY <1>2, PortionIsPrefix
<1>5. rows \cap Broken(jobs[j].chunk, malformed[j]) = {}
  BY <1>2, <1>3, <1>4, ChunkIsWhole
<1>6. /\ products' = [products EXCEPT ![j] = @ \cup rows]
      /\ UNCHANGED <<jobs, malformed, rejected, target, snap>>
  BY <1>1 DEF InsertRows, AddProducts
<1> HIDE DEF rows
<1>7. TablesAreAligned'
  BY <1>2, <1>5, <1>6 DEF MemoryInv, TablesAreAligned
<1>8. ASSUME NEW v \in Worker, pc'[v] # "idle"
      PROVE  ChunkIsJudged(v)'
  <2>1. CASE v = w
    <3>1. pc'[w] \in {"insert", "inserted"} /\ Chunk(snap[w])' = Chunk(snap[w])
      BY <1>1, <1>2, <1>6 DEF InsertRows, Goto, Chunk, Take
    <3> QED
      BY <1>3, <1>6, <2>1, <3>1 DEF ChunkIsJudged
  <2>2. CASE v # w
    <3>1. pc'[v] = pc[v]
      BY <1>1, <1>2, <2>2 DEF InsertRows, Goto
    <3> QED
      BY <1>6, <1>8, <3>1, StillJudged
  <2> QED
    BY <2>1, <2>2
<1> QED
  BY <1>7, <1>8 DEF MemoryInv

LEMMA MemorySweep ==
    ASSUME ConstantsAssumption, IInv, MemoryInv, NEW j \in JobId, SweepStale(j)
    PROVE  MemoryInv'
<1> DEFINE row == [jobs[j] EXCEPT !.status = SweptStatus(jobs[j])]
<1>1. /\ jobs' = [jobs EXCEPT ![j] = row]
      /\ UNCHANGED <<products, malformed, rejected, pc, target, snap>>
  BY DEF SweepStale, Write, requestVars
<1>2. jobs[j] \in Job /\ row.total = jobs[j].total
  BY DEF IInv, TypeOK, Job
<1>3. Aligned(row, jobs[j].chunk, rejected[j], malformed[j])
  BY <1>2, AlignedStatus DEF MemoryInv, TablesAreAligned
<1> HIDE DEF row
<1>4. TablesAreAligned' /\ \A i \in JobId : jobs'[i].chunk = jobs[i].chunk
  BY <1>1, <1>2, <1>3, WriteRow
<1>5. \A v \in Worker : pc'[v] # "idle" => ChunkIsJudged(v)'
  BY <1>1, <1>4, StillJudged
<1> QED
  BY <1>4, <1>5 DEF MemoryInv

LEMMA MemoryStep ==
    ASSUME ConstantsAssumption, store = "memory", IInv, MemoryInv, [Next]_vars
    PROVE  MemoryInv'
<1>1. CASE UNCHANGED vars
  BY <1>1 DEF vars, storeVars, requestVars, MemoryInv, TablesAreAligned, ChunkIsJudged,
              Chunk, Take
<1>2. CASE Next
  BY <1>2, MemoryCreate, MemoryRead, MemoryStart, MemoryInsert, MemoryEnd, MemorySweep
     DEF Next, Serve
<1> QED
  BY <1>1, <1>2

InMemory == store = "memory" => MemoryInv

\* In memory a chunk that is repeated adds nothing, however many requests work on
\* the job and whichever die: no row is both a product and an error ("at worst one
\* chunk of work is repeated", ingestion_job_orchestrator.py).
THEOREM RepeatsAreHarmless ==
    ASSUME ConstantsAssumption PROVE Spec => []MemoryRepeatIsHarmless
<1>1. ASSUME IInv, MemoryInv PROVE RepeatIsHarmless
  <2> SUFFICES ASSUME NEW j \in JobId
               PROVE  Cardinality(products[j]) + (jobs[j].errors - rejected[j])
                        <= jobs[j].total
    BY DEF RepeatIsHarmless
  <2> DEFINE total == jobs[j].total
             there == products[j]
             gone == Broken(jobs[j].chunk, malformed[j]) \cap (1 .. total)
             S == Broken(jobs[j].chunk, malformed[j]) \cap (1 .. jobs[j].processed)
  <2>1. /\ jobs[j] \in Job /\ Sound(jobs[j], rejected[j], there)
        /\ there \subseteq 1 .. total /\ there \cap gone = {}
        /\ rejected[j] \in Nat
        /\ jobs[j].errors - rejected[j] <= Cardinality(S)
    BY <1>1 DEF IInv, TypeOK, StoredAreSound, MemoryInv, TablesAreAligned, Aligned
  <2>2. /\ total \in Nat /\ jobs[j].processed \in Nat /\ jobs[j].errors \in Nat
        /\ Len(jobs[j].pending) \in Nat
        /\ jobs[j].processed + Len(jobs[j].pending) = total
    BY <2>1, RowFields DEF Sound
  <2>3. S \subseteq gone /\ there \cup gone \subseteq 1 .. total
    BY <2>1, <2>2
  <2>4. IsFiniteSet(1 .. total) /\ Cardinality(1 .. total) = total
    <3>1. 1 \in Nat
      OBVIOUS
    <3>2. /\ IsFiniteSet(1 .. total)
          /\ total + 1 >= 1 => Cardinality(1 .. total) = total - 1 + 1
      BY <2>2, <3>1, Numbers
    <3> HIDE DEF total
    <3> QED
      BY <2>2, <3>2
  <2> HIDE DEF S, gone, there, total
  <2>5. IsFiniteSet(there) /\ IsFiniteSet(gone) /\ IsFiniteSet(S)
    <3>1. there \subseteq 1 .. total /\ gone \subseteq 1 .. total /\ S \subseteq 1 .. total
      BY <2>3
    <3> QED
      BY <2>4, <3>1, FS_Subset
  <2>6. Cardinality(there) + Cardinality(gone) <= total
    <3>1. Cardinality(there \cup gone)
            = Cardinality(there) + Cardinality(gone) - Cardinality(there \cap gone)
      BY <2>5, FS_Union
    <3>2. Cardinality(there \cap gone) = 0
      BY <2>1, FS_EmptySet
    <3>3. Cardinality(there \cup gone) <= Cardinality(1 .. total)
      BY <2>3, <2>4, FS_Subset
    <3>4. Cardinality(there) \in Nat /\ Cardinality(gone) \in Nat
      BY <2>5, FS_CardinalityType
    <3> QED
      BY <2>4, <3>1, <3>2, <3>3, <3>4
  <2>7. /\ Cardinality(S) <= Cardinality(gone)
        /\ Cardinality(S) \in Nat /\ Cardinality(gone) \in Nat
        /\ Cardinality(there) \in Nat
    BY <2>3, <2>5, FS_Subset, FS_CardinalityType
  <2>8. Cardinality(there) + (jobs[j].errors - rejected[j]) <= total
    BY <2>1, <2>2, <2>6, <2>7
  <2> QED
    BY <2>8 DEF there, total
<1>2. Init => InMemory
  BY MemoryInit DEF InMemory
<1>3. IInv /\ InMemory /\ [Next]_vars => InMemory'
  BY MemoryStep, StoreStays DEF InMemory
<1>4. IInv /\ InMemory => MemoryRepeatIsHarmless
  BY <1>1 DEF InMemory, MemoryRepeatIsHarmless
<1> QED
  BY <1>2, <1>3, <1>4, Invariance, PTL DEF Spec

-----------------------------------------------------------------------------
(* One tab, in memory: the table of jobs keeps the promise of JobLifecycle *)

OneRequest == \A v, w \in Worker : v = w

\* The stored row is the copy its request holds, but for the status that
\* AdvanceStart writes.
CopyIsCurrent ==
    \A w \in Worker : pc[w] # "idle" =>
        /\ jobs[target[w]] \in {snap[w], [snap[w] EXCEPT !.status = "running"]}
        /\ snap[w].status \in Active

\* What may happen to the row of a job: it is inserted, worked on, or stopped.
RowInserted(j, row) ==
    /\ jobs' = [jobs EXCEPT ![j] = row] /\ jobs[j].status = "absent"
    /\ row.status = "queued"

RowWorked(j, row) ==
    /\ jobs' = [jobs EXCEPT ![j] = row] /\ jobs[j].status \in Active
    /\ row.status \in {"running"} \cup Completed
    /\ Range(row.pending) \subseteq Range(jobs[j].pending)
    /\ row.status \in Completed => row.pending = <<>>

RowStopped(j, row) ==
    /\ jobs' = [jobs EXCEPT ![j] = row] /\ jobs[j].status \in Active
    /\ row.status \in {"failed", "cancelled"}
    /\ Range(row.pending) \subseteq Range(jobs[j].pending)

TableStep ==
    \/ jobs' = jobs
    \/ \E j \in JobId, row \in Job :
        RowInserted(j, row) \/ RowWorked(j, row) \/ RowStopped(j, row)

\* What a request holds is active, and is what is stored.
LEMMA HeldRow ==
    ASSUME IInv, CopyIsCurrent, NEW w \in Worker, pc[w] # "idle"
    PROVE  /\ target[w] \in JobId /\ snap[w] \in Job
           /\ jobs[target[w]].status \in Active /\ snap[w].status \in Active
           /\ jobs[target[w]].pending = snap[w].pending
           /\ Sound(snap[w], rejected[target[w]], products[target[w]])
           /\ jobs \in [JobId -> Job] /\ rejected[target[w]] \in Nat
<1>1. target[w] \in JobId /\ snap[w] \in Job /\ jobs \in [JobId -> Job]
      /\ rejected[target[w]] \in Nat
      /\ Sound(snap[w], rejected[target[w]], products[target[w]])
  BY DEF IInv, TypeOK, CopiesAreSound, Holds
<1>2. /\ [snap[w] EXCEPT !.status = "running"].status = "running"
      /\ [snap[w] EXCEPT !.status = "running"].pending = snap[w].pending
  BY <1>1 DEF Job
<1> QED
  BY <1>1, <1>2 DEF CopyIsCurrent, Active

\* The rows that one advance leaves are rows that were pending.
LEMMA RestIsPending ==
    ASSUME ConstantsAssumption, NEW row \in Job,
           \A i \in 1 .. Len(row.pending) : row.pending[i] = row.processed + i
    PROVE  Range(Remaining(row)) \subseteq Range(row.pending)
<1>1. PICK m \in 0 .. Len(row.pending) :
        /\ Remaining(row) \in Seq(Row)
        /\ Len(Remaining(row)) = Len(row.pending) - m
        /\ \A i \in 1 .. Len(Remaining(row)) :
                Remaining(row)[i] = row.processed + m + i
  BY ChunkAndRest
<1>2. row.pending \in Seq(Row) /\ Len(row.pending) \in Nat /\ row.processed \in Nat
  BY RowFields
<1> DEFINE rest == Remaining(row)
<1> HIDE DEF rest
<1>3. ASSUME NEW i \in 1 .. Len(rest)
      PROVE  rest[i] \in Range(row.pending)
  <2>1. m + i \in 1 .. Len(row.pending) /\ rest[i] = row.processed + m + i
    BY <1>1, <1>2, <1>3 DEF rest
  <2>2. row.pending[m + i] = row.processed + (m + i)
    BY <2>1
  <2>3. rest[i] = row.pending[m + i]
    BY <1>2, <2>1, <2>2
  <2> QED
    BY <1>2, <2>1, <2>3 DEF Range
<1>4. Range(rest) = {rest[i] : i \in 1 .. Len(rest)}
  BY <1>1 DEF Range, rest
<1> QED
  BY <1>3, <1>4 DEF rest

\* A request writes its row back, worked on or failed.
LEMMA EndRow ==
    ASSUME ConstantsAssumption, IInv, CopyIsCurrent, NEW w \in Worker,
           AdvanceDrained(w) \/ Commit(w)
    PROVE  \E row \in Job : RowWorked(target[w], row) \/ RowStopped(target[w], row)
<1> DEFINE j == target[w]
<1>1. pc[w] # "idle"
  BY DEF AdvanceDrained, Commit
<1>2. /\ j \in JobId /\ snap[w] \in Job
      /\ jobs[j].status \in Active /\ jobs[j].pending = snap[w].pending
      /\ Sound(snap[w], rejected[j], products[j]) /\ rejected[j] \in Nat
  BY <1>1, HeldRow
<1>3. Range(Remaining(snap[w])) \subseteq Range(snap[w].pending)
  BY <1>2, RestIsPending DEF Sound
<1>4. CASE AdvanceDrained(w)
  <2> DEFINE row == [snap[w] EXCEPT !.status = Finished(snap[w].errors)]
  <2>1. /\ snap[w].pending = <<>> /\ jobs' = [jobs EXCEPT ![j] = row]
        /\ Finished(snap[w].errors) \in Completed
    BY <1>4 DEF AdvanceDrained, Write, Finished, Completed
  <2>2. row \in Job /\ row.status \in Completed /\ row.pending = <<>>
    BY <1>2, <2>1 DEF Job, Terminal
  <2> HIDE DEF row
  <2> QED
    BY <1>2, <2>1, <2>2 DEF RowWorked
<1>5. CASE pc[w] = "inserted" /\ Write(j, AfterChunk(snap[w]))
  <2> DEFINE row == AfterChunk(snap[w])
             st == IF Remaining(snap[w]) = <<>> THEN Finished(snap[w].errors)
                   ELSE "running"
  <2>1. Range(Chunk(snap[w])) \subseteq products[j]
    BY <1>5, EmptySequence DEF IInv, ChunkIsKept
  <2>2. row \in Job
    BY <1>2, <2>1, SoundAfterChunk
  <2>3. row.status = st /\ row.pending = Remaining(snap[w])
    BY <1>2 DEF AfterChunk, Job
  <2>4. /\ st \in {"running"} \cup Completed
        /\ st \in Completed => Remaining(snap[w]) = <<>>
    BY DEF Finished, Completed
  <2> HIDE DEF row, st
  <2> QED
    BY <1>2, <1>3, <1>5, <2>2, <2>3, <2>4 DEF RowWorked, Write, row
<1>6. CASE pc[w] = "broken" /\ Write(j, AfterFailure(snap[w]))
  <2> DEFINE row == AfterFailure(snap[w])
  <2>1. row \in Job
    BY <1>2, SoundAfterFailure
  <2>2. row.status \in {"failed", "running"} /\ row.pending = Remaining(snap[w])
    BY <1>2 DEF AfterFailure, Job
  <2> HIDE DEF row
  <2> QED
    BY <1>2, <1>3, <1>6, <2>1, <2>2 DEF RowWorked, RowStopped, Write, row, Completed
<1> QED
  BY <1>4, <1>5, <1>6 DEF Commit

\* In memory the sweep completes a job with nothing pending, or cancels it.
LEMMA SweepRow ==
    ASSUME ConstantsAssumption, store = "memory", IInv, NEW j \in JobId, SweepStale(j)
    PROVE  \E row \in Job : RowWorked(j, row) \/ RowStopped(j, row)
<1> DEFINE s == SweptStatus(jobs[j])
           row == [jobs[j] EXCEPT !.status = s]
<1>1. /\ jobs[j] \in Job /\ Sound(jobs[j], rejected[j], products[j])
      /\ jobs[j].status \in Active /\ jobs' = [jobs EXCEPT ![j] = row]
  BY DEF IInv, TypeOK, StoredAreSound, SweepStale, Write
<1>2. s = "cancelled" \/ (s \in Completed /\ jobs[j].pending = <<>>)
  <2>1. /\ jobs[j].processed \in Nat /\ jobs[j].total \in Nat
        /\ Len(jobs[j].pending) \in Nat /\ jobs[j].pending \in Seq(Row)
        /\ jobs[j].processed + Len(jobs[j].pending) = jobs[j].total
    BY <1>1, RowFields DEF Sound
  <2>2. jobs[j].processed >= jobs[j].total => jobs[j].pending = <<>>
    BY <2>1, EmptySeq
  <2> QED
    BY <2>2 DEF SweptStatus, Finished, Completed
<1>3. row \in Job /\ row.status = s /\ row.pending = jobs[j].pending
  BY <1>1, <1>2 DEF Job, Terminal, Completed
<1> HIDE DEF s, row
<1> QED
  BY <1>1, <1>2, <1>3 DEF RowWorked, RowStopped

\* Every step on the table of jobs is one of the three.
LEMMA StepOfTable ==
    ASSUME ConstantsAssumption, store = "memory", IInv, IInv', CopyIsCurrent, [Next]_vars
    PROVE  TableStep
<1>1. CASE UNCHANGED vars
  BY <1>1 DEF vars, storeVars, TableStep
<1>2. ASSUME NEW j \in JobId, Create(j) PROVE TableStep
  <2>1. PICK n \in 0 .. RowCount, c \in ChunkSize, e \in {0, 1} :
            jobs' = [jobs EXCEPT ![j] = NewJob("queued", [i \in 1 .. n |-> i], e, c)]
    BY <1>2 DEF Create, Write
  <2> DEFINE row == NewJob("queued", [i \in 1 .. n |-> i], e, c)
  <2>2. row.status = "queued" /\ jobs[j].status = "absent"
    BY <1>2 DEF NewJob, Create
  <2>3. jobs'[j] = row /\ jobs'[j] \in Job
    BY <2>1 DEF IInv, TypeOK
  <2> HIDE DEF row
  <2> QED
    BY <2>1, <2>2, <2>3 DEF TableStep, RowInserted, row
<1>3. ASSUME NEW w \in Worker, AdvanceStart(w) PROVE TableStep
  <2>1. CASE jobs' = jobs
    BY <2>1 DEF TableStep
  <2>2. CASE Write(target[w], [snap[w] EXCEPT !.status = "running"])
    <3> DEFINE row == [snap[w] EXCEPT !.status = "running"]
    <3>1. pc[w] # "idle"
      BY <1>3 DEF AdvanceStart
    <3>2. /\ target[w] \in JobId /\ snap[w] \in Job
          /\ jobs[target[w]].status \in Active
          /\ jobs[target[w]].pending = snap[w].pending
      BY <3>1, HeldRow
    <3>3. row \in Job /\ row.status = "running" /\ row.pending = snap[w].pending
      BY <3>2 DEF Job, Active
    <3> HIDE DEF row
    <3>4. RowWorked(target[w], row)
      BY <2>2, <3>2, <3>3 DEF RowWorked, Write, Completed, row
    <3> QED
      BY <3>2, <3>3, <3>4 DEF TableStep
  <2> QED
    BY <1>3, <2>1, <2>2 DEF AdvanceStart
<1>4. ASSUME NEW w \in Worker, AdvanceDrained(w) \/ Commit(w) PROVE TableStep
  <2>1. target[w] \in JobId
    BY DEF IInv, TypeOK
  <2> QED
    BY <1>4, <2>1, EndRow DEF TableStep
<1>5. ASSUME NEW j \in JobId, SweepStale(j) PROVE TableStep
  BY <1>5, SweepRow DEF TableStep
<1>6. ASSUME NEW w \in Worker,
             \/ \E j \in JobId : AdvanceRead(w, j)
             \/ InsertRows(w) \/ InsertConflict(w) \/ InsertBreaks(w) \/ Crash(w)
      PROVE  TableStep
  BY <1>6 DEF AdvanceRead, InsertRows, InsertConflict, InsertBreaks, Crash, storeVars,
              TableStep
<1> QED
  BY <1>1, <1>2, <1>3, <1>4, <1>5, <1>6 DEF Next, Serve

\* A single tab never holds a copy that is out of date.
LEMMA CopyStaysCurrent ==
    ASSUME ConstantsAssumption, OneRequest, IInv, CopyIsCurrent, [Next]_vars
    PROVE  CopyIsCurrent'
<1> SUFFICES ASSUME NEW w \in Worker, pc'[w] # "idle"
             PROVE  /\ jobs'[target'[w]]
                         \in {snap'[w], [snap'[w] EXCEPT !.status = "running"]}
                    /\ snap'[w].status \in Active
  BY DEF CopyIsCurrent
<1>1. /\ pc \in [Worker -> Pc] /\ jobs \in [JobId -> Job] /\ snap \in [Worker -> Job]
      /\ target \in [Worker -> JobId] /\ \A v \in Worker : v = w
  BY DEF IInv, TypeOK, OneRequest
<1>2. CASE \E j \in JobId : AdvanceRead(w, j)
  <2>1. PICK j \in JobId : AdvanceRead(w, j)
    BY <1>2
  <2>2. target'[w] = j /\ snap'[w] = jobs[j] /\ jobs' = jobs /\ jobs[j].status \in Active
    BY <1>1, <2>1 DEF AdvanceRead, storeVars
  <2> QED
    BY <2>2
<1>3. CASE AdvanceStart(w)
  <2>1. pc[w] # "idle" /\ UNCHANGED <<target, snap>>
    BY <1>3 DEF AdvanceStart
  <2>2. \/ jobs' = jobs
        \/ jobs'[target[w]] = [snap[w] EXCEPT !.status = "running"]
    BY <1>1, <1>3 DEF AdvanceStart, Write
  <2> QED
    BY <2>1, <2>2 DEF CopyIsCurrent
<1>4. CASE AdvanceDrained(w) \/ Commit(w) \/ Crash(w)
  BY <1>1, <1>4 DEF AdvanceDrained, Commit, Crash, Respond
<1>5. CASE InsertRows(w) \/ InsertConflict(w) \/ InsertBreaks(w) \/ UNCHANGED vars
  <2>1. UNCHANGED <<jobs, target, snap>> /\ pc[w] # "idle"
    BY <1>5 DEF InsertRows, InsertConflict, InsertBreaks, storeVars, vars, requestVars
  <2> QED
    BY <2>1 DEF CopyIsCurrent
<1>6. CASE \E j \in JobId : Create(j) \/ SweepStale(j)
  <2>1. PICK j \in JobId : Create(j) \/ SweepStale(j)
    BY <1>6
  <2>2. UNCHANGED <<pc, target, snap>>
    BY <2>1 DEF Create, SweepStale, requestVars
  <2>3. pc[w] # "idle" /\ target[w] \in JobId
    BY <1>1, <2>2
  <2>4. target[w] # j
    <3>1. jobs[target[w]].status \in Active
      BY <2>3, HeldRow
    <3> QED
      BY <2>1, <2>3, <3>1 DEF Create, SweepStale, Active
  <2>5. jobs'[target[w]] = jobs[target[w]]
    BY <1>1, <2>1, <2>3, <2>4 DEF Create, SweepStale, Write
  <2> QED
    BY <2>2, <2>3, <2>5 DEF CopyIsCurrent
<1> QED
  BY <1>1, <1>2, <1>3, <1>4, <1>5, <1>6 DEF Next, Serve

\* Every step on the table of jobs is a step the lifecycle allows, or none.
LEMMA StepOfLifecycle ==
    ASSUME IInv, TableStep
    PROVE  [Lifecycle!Next]_(Lifecycle!vars)
<1> DEFINE status == [i \in JobId |-> jobs[i].status]
           left == [i \in JobId |-> Range(jobs[i].pending)]
<1>1. jobs \in [JobId -> Job]
  BY DEF IInv, TypeOK
<1>2. CASE jobs' = jobs
  BY <1>2 DEF Lifecycle!vars
<1>3. ASSUME NEW j \in JobId, NEW row \in Job, jobs' = [jobs EXCEPT ![j] = row]
      PROVE  /\ status' = [status EXCEPT ![j] = row.status]
             /\ left' = [left EXCEPT ![j] = Range(row.pending)]
             /\ status[j] = jobs[j].status
             /\ left[j] = Range(jobs[j].pending)
             /\ Range(row.pending) \in SUBSET Row
  <2>1. row.pending \in Seq(Row)
    BY DEF Job
  <2>2. ASSUME NEW i \in JobId
        PROVE  jobs'[i] = IF i = j THEN row ELSE jobs[i]
    BY <1>1, <1>3
  <2>3. status' = [status EXCEPT ![j] = row.status]
    BY <2>2
  <2>4. left' = [left EXCEPT ![j] = Range(row.pending)]
    BY <2>2
  <2>5. Range(row.pending) \in SUBSET Row
    BY <2>1 DEF Range
  <2> QED
    BY <2>3, <2>4, <2>5
<1>4. ASSUME NEW j \in JobId, NEW row \in Job, RowInserted(j, row)
      PROVE  Lifecycle!Create(j)
  <2>1. /\ jobs' = [jobs EXCEPT ![j] = row] /\ jobs[j].status = "absent"
        /\ row.status = "queued" /\ "queued" \notin Lifecycle!Completed
    BY <1>4 DEF RowInserted, Lifecycle!Completed
  <2>2. /\ status[j] = "absent"
        /\ \E items \in SUBSET Row, s \in {"queued"} \cup Lifecycle!Completed :
            /\ s \in Lifecycle!Completed => items = {}
            /\ left' = [left EXCEPT ![j] = items]
            /\ status' = [status EXCEPT ![j] = s]
    <3>1. /\ status' = [status EXCEPT ![j] = row.status]
          /\ left' = [left EXCEPT ![j] = Range(row.pending)]
          /\ status[j] = jobs[j].status
          /\ Range(row.pending) \in SUBSET Row
      BY <2>1, <1>3
    <3> HIDE DEF status, left
    <3> QED
      BY <2>1, <3>1, Zenon
  <2> QED
    BY <2>2, Zenon DEF Lifecycle!Create
<1>5. ASSUME NEW j \in JobId, NEW row \in Job, RowWorked(j, row)
      PROVE  Lifecycle!Work(j)
  <2>1. /\ jobs' = [jobs EXCEPT ![j] = row] /\ jobs[j].status \in Lifecycle!Active
        /\ row.status \in {"running"} \cup Lifecycle!Completed
        /\ Range(row.pending) \subseteq Range(jobs[j].pending)
        /\ row.status \in Lifecycle!Completed => Range(row.pending) = {}
    BY <1>5, EmptySequence
       DEF RowWorked, Lifecycle!Completed, Lifecycle!Active, Active, Completed
  <2>2. /\ status[j] \in Lifecycle!Active
        /\ \E rest \in SUBSET left[j], s \in {"running"} \cup Lifecycle!Completed :
            /\ s \in Lifecycle!Completed => rest = {}
            /\ left' = [left EXCEPT ![j] = rest]
            /\ status' = [status EXCEPT ![j] = s]
    <3>1. /\ status' = [status EXCEPT ![j] = row.status]
          /\ left' = [left EXCEPT ![j] = Range(row.pending)]
          /\ status[j] = jobs[j].status
          /\ left[j] = Range(jobs[j].pending)
      BY <2>1, <1>3
    <3> HIDE DEF status, left
    <3> QED
      BY <2>1, <3>1, Zenon
  <2> QED
    BY <2>2, Zenon DEF Lifecycle!Work
<1>6. ASSUME NEW j \in JobId, NEW row \in Job, RowStopped(j, row)
      PROVE  Lifecycle!Stop(j)
  <2>1. /\ jobs' = [jobs EXCEPT ![j] = row] /\ jobs[j].status \in Lifecycle!Active
        /\ row.status \in Lifecycle!Stopped
        /\ Range(row.pending) \subseteq Range(jobs[j].pending)
    BY <1>6 DEF RowStopped, Lifecycle!Stopped, Lifecycle!Active, Active
  <2>2. /\ status[j] \in Lifecycle!Active
        /\ \E s \in Lifecycle!Stopped : status' = [status EXCEPT ![j] = s]
        /\ \E rest \in SUBSET left[j] : left' = [left EXCEPT ![j] = rest]
    <3>1. /\ status' = [status EXCEPT ![j] = row.status]
          /\ left' = [left EXCEPT ![j] = Range(row.pending)]
          /\ status[j] = jobs[j].status
          /\ left[j] = Range(jobs[j].pending)
      BY <2>1, <1>3
    <3> HIDE DEF status, left
    <3> QED
      BY <2>1, <3>1, Zenon
  <2> QED
    BY <2>2, Zenon DEF Lifecycle!Stop
<1> QED
  BY <1>2, <1>4, <1>5, <1>6 DEF TableStep, Lifecycle!Next

\* In memory and driven by one tab, the ingestion jobs implement the lifecycle.
THEOREM OneTabImplements ==
    ASSUME ConstantsAssumption, OneRequest
    PROVE  Spec /\ store = "memory" => ImplementsLifecycle
<1>1. Init => Lifecycle!Init
  BY EmptySequence DEF Init, Lifecycle!Init, NoJob, NewJob
<1>2. Init => CopyIsCurrent
  BY DEF Init, CopyIsCurrent
<1>3. IInv /\ CopyIsCurrent /\ [Next]_vars => CopyIsCurrent'
  BY CopyStaysCurrent
<1>4. store = "memory" /\ IInv /\ IInv' /\ CopyIsCurrent /\ [Next]_vars
        => [Lifecycle!Next]_(Lifecycle!vars)
  BY StepOfTable, StepOfLifecycle
<1>5. store = "memory" /\ [Next]_vars => (store = "memory")'
  BY StoreStays
<1> QED
  BY <1>1, <1>2, <1>3, <1>4, <1>5, Invariance, PTL DEF ImplementsLifecycle, Lifecycle!Spec, Spec
=============================================================================

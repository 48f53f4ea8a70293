-------------------------- MODULE ReviewQueueProofs --------------------------
(***************************************************************************)
(* Proofs about ReviewQueue, for any number of products, reviewers and     *)
(* concurrent requests.                                                    *)
(*                                                                         *)
(* The inductive invariant adds to the types what a request may rely on    *)
(* between two of its steps: the list it works on is not empty, the item   *)
(* it is about to write back is open and its lock ends in time, and, while *)
(* no batch has run, the product whose item it is about to delete has its  *)
(* manual classification.                                                  *)
(***************************************************************************)
EXTENDS ReviewQueue, FiniteSetTheorems, SequenceTheorems, TLAPS

-----------------------------------------------------------------------------
(* The invariant *)

StoreTypes ==
    /\ items \in [Product -> Item]
    /\ cls \in [Product -> Cls]
    /\ now \in Nat
    /\ job \in [pc : {"idle", "classify", "enqueue"},
               product : Product \cup {None}, item : Item]
    /\ batches \in Nat /\ crashes \in Nat

RequestTypes ==
    /\ pc \in [Worker -> Pc]
    /\ by \in [Worker -> Reviewer \cup {None}]
    /\ want \in [Worker -> Decision]
    /\ at \in [Worker -> Nat]
    /\ copy \in [Worker -> Item]
    /\ seen \in [Worker -> Cls]
    /\ todo \in [Worker -> Seq(Product)]
    /\ valid \in [Worker -> Seq(Product)]

\* A request that is being served has a product to handle.
HasWork == \A w \in Worker : pc[w] # "idle" => todo[w] # <<>>

\* The item that claim, release, refresh or assign writes back is open.
CopyIsOpen == \A w \in Worker : pc[w] = "lock" => Open(copy[w])

\* Its lock, if any, ends no later than a lock taken now would.
CopyIsBounded ==
    \A w \in Worker : pc[w] = "lock" => copy[w].expires <= now + LockTime

\* A batch that has work has been counted, and its item carries no lock.
BatchIsCounted ==
    /\ job.pc # "idle" => batches > 0
    /\ job.item.expires = 0

\* Before any batch, an item is deleted only after the classification.
DeletesDecided ==
    \A w \in Worker :
        batches = 0 /\ pc[w] = "settle" /\ want[w].kind # "defer"
            => cls[Head(todo[w])].source = "manual"

IInv ==
    /\ TypeOK
    /\ HasWork
    /\ CopyIsOpen
    /\ CopyIsBounded
    /\ LockIsBounded
    /\ BatchIsCounted
    /\ DeletesDecided

-----------------------------------------------------------------------------
(* Lemmas *)

LEMMA TypesSplit == TypeOK <=> StoreTypes /\ RequestTypes
BY DEF TypeOK, StoreTypes, RequestTypes

LEMMA TypesSplitNext == TypeOK' <=> StoreTypes' /\ RequestTypes'
BY DEF TypeOK, StoreTypes, RequestTypes

\* The items that actions write.
LEMMA Items ==
    /\ NoItem \in Item /\ NoItem.expires = 0 /\ ~Open(NoItem)
    /\ Queued \in Item /\ Queued.expires = 0 /\ Open(Queued)
    /\ MakeItem("deferred") \in Item
    /\ MakeItem("deferred").expires = 0
    /\ MakeItem("deferred").status = "deferred"
    /\ NoItem.status = "absent" /\ Queued.status = "in_queue"
BY ConstantsAssumption DEF Item, Status, NoItem, Queued, MakeItem, Open

\* A lock that is taken or extended now.
LEMMA LockedItem ==
    ASSUME now \in Nat, NEW r \in Reviewer, NEW item
    PROVE  /\ LockedBy(item, r) \in Item
           /\ Open(LockedBy(item, r))
           /\ LockedBy(item, r).expires = now + LockTime
BY ConstantsAssumption DEF Item, Status, LockedBy, Open

LEMMA ItemFields ==
    ASSUME NEW item \in Item
    PROVE  item.expires \in Nat /\ item.status \in Status
BY DEF Item

LEMMA Classes ==
    ASSUME NEW d \in Decision, NEW row \in Cls
    PROVE  /\ Decided(d, row) \in Cls
           /\ Decided(d, row).source = "manual"
           /\ NoCls \in Cls
BY DEF Decided, Decision, Cls, Source, NoCls

\* A request that has ended has the types of none.
LEMMA RespondTypes ==
    ASSUME RequestTypes, NEW w \in Worker, Respond(w)
    PROVE  RequestTypes'
<1>1. NoItem \in Item /\ NoCls \in Cls /\ NoDecision \in Decision
  BY Items DEF NoCls, Cls, Source, NoDecision, Decision
<1>2. <<>> \in Seq(Product)
  OBVIOUS
<1> QED
  BY <1>1, <1>2 DEF RequestTypes, Respond, Goto, Pc

\* ... and leaves the others as they are.
LEMMA RespondOthers ==
    ASSUME RequestTypes, NEW w \in Worker, Respond(w)
    PROVE  /\ pc' = [pc EXCEPT ![w] = "idle"]
           /\ pc'[w] = "idle"
           /\ \A v \in Worker \ {w} :
                /\ pc'[v] = pc[v] /\ todo'[v] = todo[v]
                /\ copy'[v] = copy[v] /\ want'[v] = want[v]
BY DEF RequestTypes, Respond, Goto

\* The first product of a list, and what follows it.
LEMMA Lists ==
    ASSUME NEW s \in Seq(Product), s # <<>>
    PROVE  /\ Head(s) \in Product
           /\ Tail(s) \in Seq(Product)
           /\ Len(s) # 1 => Tail(s) # <<>>
<1>1. Head(s) \in Product /\ Tail(s) \in Seq(Product) /\ Len(Tail(s)) = Len(s) - 1
  OBVIOUS
<1>2. Len(s) \in Nat \ {0}
  BY EmptySeq
<1>3. Len(<<>>) = 0
  OBVIOUS
<1> QED
  BY <1>1, <1>2, <1>3

\* A selection is a list of products.
LEMMA SelectionIsList ==
    ASSUME NEW s \in Selections
    PROVE  s \in Seq(Product)
<1>1. PICK S \in SUBSET Product : s \in Injection(1 .. Cardinality(S), S)
  BY DEF Selections
<1>2. Cardinality(S) \in Nat
  BY ConstantsAssumption, FS_Subset, FS_CardinalityType
<1>3. s \in [1 .. Cardinality(S) -> Product]
  BY <1>1 DEF Injection
<1> QED
  BY <1>2, <1>3

-----------------------------------------------------------------------------
(* Every step keeps the invariant *)

LEMMA InitIInv == Init => IInv
<1> SUFFICES ASSUME Init PROVE IInv
  OBVIOUS
<1>1. NoItem \in Item /\ Queued \in Item /\ NoItem.expires = 0 /\ Queued.expires = 0
  BY Items
<1>2. \A s \in AfterJob : s[1] \in Cls /\ s[2] \in {NoItem, Queued}
  BY DEF AfterJob, Cls, Source, NoCls
<1>3. items \in [Product -> {NoItem, Queued}] /\ cls \in [Product -> Cls]
  BY <1>2 DEF Init
<1>4. NoDecision \in Decision /\ NoCls \in Cls
  BY DEF NoDecision, Decision, NoCls, Cls, Source
<1>5. <<>> \in Seq(Product)
  OBVIOUS
<1>6. TypeOK
  BY <1>1, <1>3, <1>4, <1>5 DEF Init, TypeOK, Pc, NoJob
<1>7. LockIsBounded
  BY <1>1, <1>3, ConstantsAssumption DEF LockIsBounded, Init
<1> QED
  BY <1>1, <1>6, <1>7 DEF Init, IInv, HasWork, CopyIsOpen, CopyIsBounded,
                    BatchIsCounted, DeletesDecided, NoJob

\* claim, release, refresh and assign read an item.
LEMMA BeginStep ==
    ASSUME IInv, NEW w \in Worker, NEW r \in Reviewer, NEW p \in Product,
           NEW item \in Item, Open(item), item.expires <= now + LockTime,
           Begin(w, r, p, item)
    PROVE  IInv'
<1> USE DEF Begin, Goto, storeVars, jobVars
<1>1. TypeOK'
  BY DEF IInv, TypeOK, Pc
<1>2. pc \in [Worker -> Pc] /\ todo \in [Worker -> Seq(Product)]
      /\ copy \in [Worker -> Item]
  BY DEF IInv, TypeOK
<1>3. HasWork' /\ CopyIsOpen' /\ CopyIsBounded' /\ LockIsBounded'
      /\ BatchIsCounted' /\ DeletesDecided'
  BY <1>2 DEF IInv, HasWork, CopyIsOpen, CopyIsBounded, LockIsBounded,
           BatchIsCounted, DeletesDecided, Open
<1> QED
  BY <1>1, <1>3 DEF IInv

LEMMA ReadsStep ==
    ASSUME IInv, NEW w \in Worker, NEW r \in Reviewer, NEW p \in Product,
           \/ ClaimRead(w, r, p) \/ ReleaseRead(w, r, p)
           \/ RefreshRead(w, r, p) \/ AssignRead(w, r, p)
    PROVE  IInv'
<1>1. now \in Nat /\ items[p] \in Item /\ LockTime \in Nat
      /\ items[p].expires <= now + LockTime
  BY ConstantsAssumption DEF IInv, TypeOK, LockIsBounded
<1>2. CASE ClaimRead(w, r, p) \/ RefreshRead(w, r, p)
  <2>1. /\ LockedBy(items[p], r) \in Item /\ Open(LockedBy(items[p], r))
        /\ LockedBy(items[p], r).expires <= now + LockTime
    BY <1>1, LockedItem
  <2>2. Begin(w, r, p, LockedBy(items[p], r))
    BY <1>2 DEF ClaimRead, RefreshRead
  <2> QED
    BY <2>1, <2>2, BeginStep
<1>3. CASE ReleaseRead(w, r, p)
  <2>1. Begin(w, r, p, Queued)
    BY <1>3 DEF ReleaseRead
  <2>2. Queued \in Item /\ Open(Queued) /\ Queued.expires <= now + LockTime
    BY <1>1, Items
  <2> QED
    BY <2>1, <2>2, BeginStep
<1>4. CASE AssignRead(w, r, p)
  <2>1. Begin(w, r, p, items[p]) /\ Open(items[p])
    BY <1>4 DEF AssignRead
  <2> QED
    BY <1>1, <2>1, BeginStep
<1> QED
  BY <1>2, <1>3, <1>4

\* A request with a decision arrives.
LEMMA DecideStep ==
    ASSUME IInv, NEW w \in Worker, NEW r \in Reviewer, NEW p \in Product,
           NEW d \in Decision, NEW next \in {"current", "synth"},
           Decide(w, r, p, d, next)
    PROVE  IInv'
<1> USE DEF Decide, Goto, storeVars, jobVars
<1>1. TypeOK'
  BY DEF IInv, TypeOK, Pc
<1>2. pc \in [Worker -> Pc] /\ todo \in [Worker -> Seq(Product)]
      /\ want \in [Worker -> Decision]
  BY DEF IInv, TypeOK
<1>3. HasWork' /\ CopyIsOpen' /\ CopyIsBounded' /\ LockIsBounded'
      /\ BatchIsCounted' /\ DeletesDecided'
  BY <1>2 DEF IInv, HasWork, CopyIsOpen, CopyIsBounded, LockIsBounded,
           BatchIsCounted, DeletesDecided, Open
<1> QED
  BY <1>1, <1>3 DEF IInv

LEMMA BulkStartStep ==
    ASSUME IInv, NEW w \in Worker, NEW r \in Reviewer, NEW s \in Selections,
           NEW d \in Decision, BulkStart(w, r, s, d)
    PROVE  IInv'
<1> USE DEF BulkStart, Goto, storeVars, jobVars
<1>1. s \in Seq(Product)
  BY SelectionIsList
<1>2. TypeOK'
  BY <1>1 DEF IInv, TypeOK, Pc
<1>3. pc \in [Worker -> Pc] /\ todo \in [Worker -> Seq(Product)]
      /\ want \in [Worker -> Decision]
  BY DEF IInv, TypeOK
<1>4. HasWork' /\ CopyIsOpen' /\ CopyIsBounded' /\ LockIsBounded'
      /\ BatchIsCounted' /\ DeletesDecided'
  BY <1>3 DEF IInv, HasWork, CopyIsOpen, CopyIsBounded, LockIsBounded,
           BatchIsCounted, DeletesDecided, Open
<1> QED
  BY <1>2, <1>4 DEF IInv

\* A request ends and the store is as it was.
LEMMA EndStep ==
    ASSUME IInv, NEW w \in Worker, Respond(w), crashes' \in Nat,
           UNCHANGED <<storeVars, now, jobVars>>
    PROVE  IInv'
<1>1. RequestTypes /\ StoreTypes
  BY TypesSplit DEF IInv
<1>2. RequestTypes'
  BY <1>1, RespondTypes
<1>3. StoreTypes'
  BY <1>1 DEF StoreTypes, storeVars, jobVars
<1>4. TypeOK'
  BY <1>2, <1>3, TypesSplitNext
<1>5. HasWork' /\ CopyIsOpen' /\ CopyIsBounded' /\ LockIsBounded'
      /\ BatchIsCounted' /\ DeletesDecided'
  BY <1>1, RespondOthers
     DEF IInv, HasWork, CopyIsOpen, CopyIsBounded, LockIsBounded,
         BatchIsCounted, DeletesDecided, Open, storeVars, jobVars
<1> QED
  BY <1>4, <1>5 DEF IInv

LEMMA LockWriteStep ==
    ASSUME IInv, NEW w \in Worker, LockWrite(w)
    PROVE  IInv'
<1> DEFINE p == Head(todo[w])
<1>1. RequestTypes /\ StoreTypes
  BY TypesSplit DEF IInv
<1>2. /\ copy[w] \in Item /\ copy[w].expires <= now + LockTime
      /\ items' = [items EXCEPT ![p] = copy[w]]
      /\ Respond(w) /\ UNCHANGED <<cls, now, jobVars, crashes>>
  BY <1>1 DEF LockWrite, Upsert, IInv, CopyIsBounded, RequestTypes
<1>3. RequestTypes' /\ StoreTypes'
  BY <1>1, <1>2, RespondTypes DEF StoreTypes, jobVars
<1>4. LockIsBounded'
  BY <1>1, <1>2 DEF IInv, LockIsBounded, StoreTypes
<1>5. HasWork' /\ CopyIsOpen' /\ CopyIsBounded' /\ BatchIsCounted' /\ DeletesDecided'
  BY <1>1, <1>2, RespondOthers
     DEF IInv, HasWork, CopyIsOpen, CopyIsBounded, BatchIsCounted,
         DeletesDecided, Open, jobVars
<1> QED
  BY <1>3, <1>4, <1>5, TypesSplitNext DEF IInv

LEMMA SynthesiseStep ==
    ASSUME IInv, NEW w \in Worker, Synthesise(w)
    PROVE  IInv'
<1> DEFINE p == Head(todo[w])
<1>1. RequestTypes /\ StoreTypes
  BY TypesSplit DEF IInv
<1>2. /\ items' = [items EXCEPT ![p] = Queued] /\ pc' = [pc EXCEPT ![w] = "current"]
      /\ pc[w] = "synth"
      /\ UNCHANGED <<cls, now, by, want, at, copy, seen, todo, valid, jobVars, crashes>>
  BY DEF Synthesise, Upsert, Goto
<1>3. RequestTypes' /\ StoreTypes'
  BY <1>1, <1>2, Items DEF RequestTypes, StoreTypes, jobVars, Pc
<1>4. LockIsBounded'
  BY <1>1, <1>2, Items, ConstantsAssumption DEF IInv, LockIsBounded, StoreTypes
<1>5. HasWork' /\ CopyIsOpen' /\ CopyIsBounded' /\ BatchIsCounted' /\ DeletesDecided'
  BY <1>1, <1>2
     DEF IInv, HasWork, CopyIsOpen, CopyIsBounded, BatchIsCounted,
         DeletesDecided, Open, jobVars, RequestTypes
<1> QED
  BY <1>3, <1>4, <1>5, TypesSplitNext DEF IInv

LEMMA BulkCheckStep ==
    ASSUME IInv, NEW w \in Worker, BulkCheck(w)
    PROVE  IInv'
<1> DEFINE p == Head(todo[w])
<1> USE DEF Goto
<1>1. /\ RequestTypes /\ StoreTypes
      /\ pc[w] = "validate" /\ todo[w] \in Seq(Product) /\ todo[w] # <<>>
  BY TypesSplit DEF IInv, BulkCheck, HasWork, RequestTypes
<1>2. /\ p \in Product /\ Tail(todo[w]) \in Seq(Product)
      /\ Len(todo[w]) # 1 => Tail(todo[w]) # <<>>
  BY <1>1, Lists
<1>a. valid' = [valid EXCEPT ![w] = Append(@, p)] /\ valid[w] \in Seq(Product)
  BY <1>1 DEF BulkCheck, RequestTypes
<1>b. valid'[w] = Append(valid[w], p)
  BY <1>1, <1>a DEF RequestTypes
<1>c. /\ Append(valid[w], p) \in Seq(Product)
      /\ Len(Append(valid[w], p)) = Len(valid[w]) + 1
      /\ Len(valid[w]) \in Nat /\ Len(<<>>) = 0
  BY <1>a, <1>2
<1>3. /\ Append(valid[w], p) \in Seq(Product) /\ Append(valid[w], p) # <<>>
      /\ valid' = [valid EXCEPT ![w] = Append(@, p)]
      /\ valid'[w] = Append(valid[w], p)
  BY <1>a, <1>b, <1>c
<1>4. UNCHANGED <<storeVars, now, by, want, at, copy, seen, jobVars, crashes>>
  BY DEF BulkCheck
<1>5. PICK l \in Seq(Product) \ {<<>>}, c \in {"current", "validate"} :
            todo' = [todo EXCEPT ![w] = l] /\ pc' = [pc EXCEPT ![w] = c]
  <2>1. CASE Len(todo[w]) = 1
    BY <2>1, <1>3 DEF BulkCheck
  <2>2. CASE Len(todo[w]) # 1
    <3>1. todo' = [todo EXCEPT ![w] = Tail(todo[w])] /\ pc' = pc
      BY <2>2 DEF BulkCheck
    <3>2. pc' = [pc EXCEPT ![w] = "validate"]
      BY <3>1, <1>1 DEF RequestTypes
    <3> QED
      BY <3>1, <3>2, <2>2, <1>2
  <2> QED
    BY <2>1, <2>2
<1>6. RequestTypes' /\ StoreTypes'
  BY <1>1, <1>3, <1>4, <1>5 DEF RequestTypes, StoreTypes, storeVars, jobVars, Pc
<1>7. HasWork' /\ CopyIsOpen' /\ CopyIsBounded' /\ LockIsBounded'
      /\ BatchIsCounted' /\ DeletesDecided'
  BY <1>1, <1>4, <1>5
     DEF IInv, HasWork, CopyIsOpen, CopyIsBounded, LockIsBounded, BatchIsCounted,
         DeletesDecided, Open, storeVars, jobVars, RequestTypes
<1> QED
  BY <1>6, <1>7, TypesSplitNext DEF IInv

LEMMA ReadCurrentStep ==
    ASSUME IInv, NEW w \in Worker, ReadCurrent(w)
    PROVE  IInv'
<1> DEFINE p == Head(todo[w])
<1> USE DEF Goto
<1>1. /\ RequestTypes /\ StoreTypes
      /\ pc[w] = "current" /\ todo[w] \in Seq(Product) /\ todo[w] # <<>>
      /\ want[w] \in Decision
  BY TypesSplit DEF IInv, ReadCurrent, HasWork, RequestTypes
<1>2. p \in Product /\ cls[p] \in Cls
  BY <1>1, Lists DEF StoreTypes
<1>3. /\ seen' = [seen EXCEPT ![w] = cls[p]]
      /\ pc' = [pc EXCEPT ![w] = FirstWrite(want[w])]
      /\ UNCHANGED <<storeVars, now, by, want, at, copy, todo, valid, jobVars, crashes>>
  BY DEF ReadCurrent
<1>4. FirstWrite(want[w]) \in {"settle", "classify"}
      /\ (FirstWrite(want[w]) = "settle" => want[w].kind = "defer")
  BY DEF FirstWrite
<1>5. RequestTypes' /\ StoreTypes'
  BY <1>1, <1>2, <1>3, <1>4 DEF RequestTypes, StoreTypes, storeVars, jobVars, Pc
<1>6. HasWork' /\ CopyIsOpen' /\ CopyIsBounded' /\ LockIsBounded'
      /\ BatchIsCounted' /\ DeletesDecided'
  BY <1>1, <1>3, <1>4
     DEF IInv, HasWork, CopyIsOpen, CopyIsBounded, LockIsBounded, BatchIsCounted,
         DeletesDecided, Open, storeVars, jobVars, RequestTypes
<1> QED
  BY <1>5, <1>6, TypesSplitNext DEF IInv

LEMMA ClassifyItemStep ==
    ASSUME IInv, NEW w \in Worker, ClassifyItem(w)
    PROVE  IInv'
<1> DEFINE p == Head(todo[w])
           row == Decided(want[w], seen[w])
<1> USE DEF Goto
<1>1. /\ RequestTypes /\ StoreTypes
      /\ pc[w] = "classify" /\ todo[w] \in Seq(Product) /\ todo[w] # <<>>
  BY TypesSplit DEF IInv, ClassifyItem, HasWork, RequestTypes
<1>2. row \in Cls /\ row.source = "manual"
  BY <1>1, Classes DEF RequestTypes
<1>3. p \in Product
  BY <1>1, Lists
<1>4. /\ cls' = [cls EXCEPT ![p] = row]
      /\ pc' = [pc EXCEPT ![w] = "settle"]
      /\ UNCHANGED <<items, now, by, want, at, copy, seen, todo, valid, jobVars, crashes>>
  BY DEF ClassifyItem
<1> HIDE DEF row
<1>5. RequestTypes' /\ StoreTypes'
  BY <1>1, <1>2, <1>4 DEF RequestTypes, StoreTypes, jobVars, Pc
<1>6. HasWork' /\ CopyIsOpen' /\ CopyIsBounded' /\ LockIsBounded' /\ BatchIsCounted'
  BY <1>1, <1>4
     DEF IInv, HasWork, CopyIsOpen, CopyIsBounded, LockIsBounded, BatchIsCounted,
         Open, jobVars, RequestTypes
<1>7. DeletesDecided'
  <2> SUFFICES ASSUME NEW v \in Worker, batches = 0, pc'[v] = "settle",
                      want[v].kind # "defer"
               PROVE  cls'[Head(todo[v])].source = "manual"
    BY <1>4 DEF DeletesDecided, jobVars
  <2>1. CASE Head(todo[v]) = p
    BY <2>1, <1>1, <1>2, <1>3, <1>4 DEF StoreTypes
  <2>2. CASE Head(todo[v]) # p
    <3>1. v # w /\ pc[v] = "settle"
      BY <2>2, <1>1, <1>4 DEF RequestTypes
    <3> QED
      BY <3>1, <2>2, <1>1, <1>4 DEF IInv, DeletesDecided, StoreTypes
  <2> QED
    BY <2>1, <2>2
<1> QED
  BY <1>5, <1>6, <1>7, TypesSplitNext DEF IInv

LEMMA SettleStep ==
    ASSUME IInv, NEW w \in Worker, Settle(w)
    PROVE  IInv'
<1> DEFINE p == Head(todo[w])
           item == Settled(want[w])
<1> USE DEF Goto
<1>1. /\ RequestTypes /\ StoreTypes
      /\ pc[w] = "settle" /\ todo[w] \in Seq(Product) /\ todo[w] # <<>>
  BY TypesSplit DEF IInv, Settle, HasWork, RequestTypes
<1>2. item \in Item /\ item.expires = 0
  BY Items DEF Settled
<1>3. items' = [items EXCEPT ![p] = item] /\ UNCHANGED <<cls, now, jobVars, crashes>>
  BY DEF Settle, Upsert
<1> HIDE DEF item
<1>4. StoreTypes'
  BY <1>1, <1>2, <1>3 DEF StoreTypes, jobVars
<1>5. LockIsBounded' /\ BatchIsCounted'
  BY <1>1, <1>2, <1>3, ConstantsAssumption
     DEF IInv, LockIsBounded, BatchIsCounted, StoreTypes, jobVars
<1>6. CASE Len(todo[w]) = 1
  <2>1. Respond(w)
    BY <1>6 DEF Settle
  <2>2. RequestTypes'
    BY <2>1, <1>1, RespondTypes
  <2>3. HasWork' /\ CopyIsOpen' /\ CopyIsBounded' /\ DeletesDecided'
    BY <2>1, <1>1, <1>3, RespondOthers
       DEF IInv, HasWork, CopyIsOpen, CopyIsBounded, DeletesDecided, Open, jobVars
  <2> QED
    BY <2>2, <2>3, <1>4, <1>5, TypesSplitNext DEF IInv
<1>7. CASE Len(todo[w]) # 1
  <2>1. /\ todo' = [todo EXCEPT ![w] = Tail(todo[w])]
        /\ pc' = [pc EXCEPT ![w] = "current"]
        /\ UNCHANGED <<by, want, at, copy, seen, valid>>
    BY <1>7 DEF Settle
  <2>2. Tail(todo[w]) \in Seq(Product) /\ Tail(todo[w]) # <<>>
    BY <1>1, <1>7, Lists
  <2>3. RequestTypes'
    BY <2>1, <2>2, <1>1 DEF RequestTypes, Pc
  <2>4. HasWork' /\ CopyIsOpen' /\ CopyIsBounded' /\ DeletesDecided'
    BY <2>1, <2>2, <1>1, <1>3
       DEF IInv, HasWork, CopyIsOpen, CopyIsBounded, DeletesDecided, Open,
           jobVars, RequestTypes
  <2> QED
    BY <2>3, <2>4, <1>4, <1>5, TypesSplitNext DEF IInv
<1> QED
  BY <1>6, <1>7

\* The steps of a classification batch.
LEMMA JobStep ==
    ASSUME IInv, (\E p \in Product : JobCreate(p)) \/ JobClassify \/ JobEnqueue
    PROVE  IInv'
<1>1. RequestTypes /\ StoreTypes
  BY TypesSplit DEF IInv
<1>2. CASE \E p \in Product : JobCreate(p)
  <2> USE <1>2 DEF JobCreate, requestVars, storeVars
  <2>1. StoreTypes' /\ RequestTypes' /\ batches' > 0
    BY <1>1, Items DEF StoreTypes, RequestTypes
  <2>2. HasWork' /\ CopyIsOpen' /\ CopyIsBounded' /\ LockIsBounded'
        /\ BatchIsCounted' /\ DeletesDecided'
    BY <2>1, Items DEF IInv, HasWork, CopyIsOpen, CopyIsBounded, LockIsBounded,
             BatchIsCounted, DeletesDecided, Open, StoreTypes
  <2> QED
    BY <2>1, <2>2, TypesSplitNext DEF IInv
<1>3. CASE JobClassify
  <2>1. PICK g \in Group \cup {Unknown}, item \in {NoItem, Queued} :
            /\ cls' = [cls EXCEPT ![job.product] = [group |-> g, source |-> "ai"]]
            /\ job' = [job EXCEPT !.pc = "enqueue", !.item = item]
    BY <1>3 DEF JobClassify
  <2>2. /\ job.pc = "classify" /\ batches > 0
        /\ UNCHANGED <<items, now, requestVars, batches, crashes>>
    BY <1>3 DEF JobClassify, IInv, BatchIsCounted
  <2>3. [group |-> g, source |-> "ai"] \in Cls /\ item \in Item /\ item.expires = 0
    BY Items DEF Cls, Source
  <2>a. /\ job' \in [pc : {"idle", "classify", "enqueue"},
                     product : Product \cup {None}, item : Item]
        /\ job'.item = item
    BY <1>1, <2>1, <2>3 DEF StoreTypes
  <2>4. StoreTypes' /\ RequestTypes'
    BY <1>1, <2>1, <2>2, <2>3, <2>a DEF StoreTypes, RequestTypes, requestVars
  <2>5. HasWork' /\ CopyIsOpen' /\ CopyIsBounded' /\ LockIsBounded'
        /\ BatchIsCounted' /\ DeletesDecided'
    BY <2>2, <2>3, <2>a, <1>1
       DEF IInv, HasWork, CopyIsOpen, CopyIsBounded, LockIsBounded,
           BatchIsCounted, DeletesDecided, Open, StoreTypes, requestVars
  <2> QED
    BY <2>4, <2>5, TypesSplitNext DEF IInv
<1>4. CASE JobEnqueue
  <2>1. /\ items' = [items EXCEPT ![job.product] = job.item] /\ job' = NoJob
        /\ UNCHANGED <<cls, now, requestVars, batches, crashes>>
        /\ job.pc = "enqueue" /\ batches > 0 /\ job.item.expires = 0
    BY <1>4 DEF JobEnqueue, Upsert, IInv, BatchIsCounted
  <2>2. job.item \in Item /\ NoJob.item \in Item /\ NoJob.pc = "idle"
        /\ NoJob.item.expires = 0
        /\ NoJob \in [pc : {"idle", "classify", "enqueue"},
                      product : Product \cup {None}, item : Item]
    BY <1>1, Items DEF StoreTypes, NoJob
  <2>3. StoreTypes' /\ RequestTypes'
    BY <1>1, <2>1, <2>2 DEF StoreTypes, RequestTypes, requestVars
  <2>a. LockIsBounded'
    BY <1>1, <2>1, ConstantsAssumption DEF IInv, LockIsBounded, StoreTypes
  <2>4. HasWork' /\ CopyIsOpen' /\ CopyIsBounded' /\ BatchIsCounted' /\ DeletesDecided'
    BY <2>1, <2>2, <1>1 DEF IInv, HasWork, CopyIsOpen, CopyIsBounded,
             BatchIsCounted, DeletesDecided, Open, StoreTypes, requestVars
  <2> QED
    BY <2>a, <2>3, <2>4, TypesSplitNext DEF IInv
<1> QED
  BY <1>2, <1>3, <1>4

LEMMA NextIInv == IInv /\ [Next]_vars => IInv'
<1> SUFFICES ASSUME IInv, [Next]_vars PROVE IInv'
  OBVIOUS
<1>1. ASSUME NEW w \in Worker, NEW r \in Reviewer, Receive(w, r)
      PROVE  IInv'
  <2>1. ASSUME NEW p \in Product,
               \/ ClaimRead(w, r, p) \/ ReleaseRead(w, r, p)
               \/ RefreshRead(w, r, p) \/ AssignRead(w, r, p)
        PROVE  IInv'
    BY <2>1, ReadsStep
  <2>2. ASSUME NEW p \in Product, NEW d \in Decision,
               DecideItem(w, r, p, d) \/ DecideUnqueued(w, r, p, d)
        PROVE  IInv'
    <3>1. Decide(w, r, p, d, "current") \/ Decide(w, r, p, d, "synth")
      BY <2>2 DEF DecideItem, DecideUnqueued
    <3> QED
      BY <3>1, DecideStep
  <2>3. ASSUME NEW s \in Selections, NEW d \in Decision, BulkStart(w, r, s, d)
        PROVE  IInv'
    BY <2>3, BulkStartStep
  <2> QED
    BY <1>1, <2>1, <2>2, <2>3 DEF Receive
<1>2. ASSUME NEW w \in Worker, Serve(w)
      PROVE  IInv'
  <2>1. CASE BulkReject(w) \/ DecisionFails(w)
    <3>1. Respond(w) /\ UNCHANGED <<storeVars, now, jobVars, crashes>>
      BY <2>1 DEF BulkReject, DecisionFails
    <3>2. crashes' \in Nat
      BY <3>1 DEF IInv, TypeOK
    <3> QED
      BY <3>1, <3>2, EndStep
  <2> QED
    BY <1>2, <2>1, LockWriteStep, SynthesiseStep, BulkCheckStep, ReadCurrentStep,
       ClassifyItemStep, SettleStep DEF Serve
<1>3. ASSUME NEW w \in Worker, Crash(w)
      PROVE  IInv'
  <2>1. Respond(w) /\ UNCHANGED <<storeVars, now, jobVars>> /\ crashes' = crashes + 1
    BY <1>3 DEF Crash
  <2>2. crashes' \in Nat
    BY <2>1 DEF IInv, TypeOK
  <2> QED
    BY <2>1, <2>2, EndStep
<1>4. CASE Tick
  BY <1>4, ConstantsAssumption
     DEF Tick, storeVars, requestVars, jobVars, IInv, TypeOK, HasWork, CopyIsOpen,
         CopyIsBounded, LockIsBounded, BatchIsCounted, DeletesDecided, Open, Item
<1>5. CASE UNCHANGED vars
  BY <1>5
     DEF vars, storeVars, requestVars, jobVars, IInv, TypeOK, HasWork, CopyIsOpen,
         CopyIsBounded, LockIsBounded, BatchIsCounted, DeletesDecided, Open
<1> QED
  BY <1>1, <1>2, <1>3, <1>4, <1>5, JobStep DEF Next

LEMMA Invariance == Spec => []IInv
BY InitIInv, NextIInv, PTL DEF Spec

-----------------------------------------------------------------------------
(* Theorems *)

\* The tables and the requests always have their types.
THEOREM TypeCorrect == Spec => []TypeOK
<1>1. IInv => TypeOK
  BY DEF IInv
<1> QED
  BY <1>1, Invariance, PTL

\* However many reviewers and requests overlap, and whichever die: no lock ends
\* later than one taken now would (refresh_lock and claim_item write back the
\* copies they read).
THEOREM LocksAreBounded == Spec => []LockIsBounded
<1>1. IInv => LockIsBounded
  BY DEF IInv
<1> QED
  BY <1>1, Invariance, PTL

\* Nothing drops out of a queue undecided: submit_decision stores the manual
\* classification before it deletes the item.
THEOREM RemovalsAreDecided == Spec => RemovedIsDecided
<1> DEFINE A == \A p \in Product :
        batches = 0 /\ items[p].status # "absent" /\ items'[p].status = "absent"
            => cls[p].source = "manual"
<1>1. IInv /\ [Next]_vars => A
  <2> SUFFICES ASSUME IInv, [Next]_vars, NEW p \in Product, batches = 0,
                      items[p].status # "absent", items'[p].status = "absent"
               PROVE  cls[p].source = "manual"
    OBVIOUS
  <2>1. items' # items /\ items \in [Product -> Item] /\ job.pc = "idle"
    BY DEF IInv, TypeOK, BatchIsCounted
  <2>2. ASSUME NEW w \in Worker, LockWrite(w)
        PROVE  FALSE
    <3>1. items' = [items EXCEPT ![Head(todo[w])] = copy[w]] /\ Open(copy[w])
      BY <2>2 DEF LockWrite, Upsert, IInv, CopyIsOpen
    <3> QED
      BY <3>1, <2>1 DEF Open
  <2>3. ASSUME NEW w \in Worker, Synthesise(w)
        PROVE  FALSE
    <3>1. items' = [items EXCEPT ![Head(todo[w])] = Queued]
      BY <2>3 DEF Synthesise, Upsert
    <3> QED
      BY <3>1, <2>1, Items
  <2>4. ASSUME NEW w \in Worker, Settle(w)
        PROVE  cls[p].source = "manual"
    <3>1. items' = [items EXCEPT ![Head(todo[w])] = Settled(want[w])]
      BY <2>4 DEF Settle, Upsert
    <3>2. p = Head(todo[w]) /\ Settled(want[w]).status = "absent"
      BY <3>1, <2>1
    <3>3. want[w].kind # "defer"
      BY <3>2, Items DEF Settled
    <3> QED
      BY <3>2, <3>3, <2>4 DEF Settle, IInv, DeletesDecided
  <2>5. ASSUME NEW w \in Worker, NEW r \in Reviewer, Receive(w, r)
        PROVE  items' = items
    BY <2>5 DEF Receive, ClaimRead, ReleaseRead, RefreshRead, AssignRead, Begin,
                DecideItem, DecideUnqueued, Decide, BulkStart, storeVars
  <2>6. ASSUME NEW w \in Worker,
               \/ BulkCheck(w) \/ BulkReject(w) \/ ReadCurrent(w)
               \/ DecisionFails(w) \/ ClassifyItem(w) \/ Crash(w)
        PROVE  items' = items
    BY <2>6 DEF BulkCheck, BulkReject, ReadCurrent, DecisionFails, ClassifyItem,
                Crash, storeVars
  <2>7. CASE (\E q \in Product : JobCreate(q)) \/ JobClassify \/ Tick
    BY <2>7, <2>1 DEF JobCreate, JobClassify, Tick, storeVars
  <2>8. ~JobEnqueue
    BY <2>1 DEF JobEnqueue
  <2>9. ~UNCHANGED vars
    BY <2>1 DEF vars, storeVars
  <2>10. Next
    BY <2>9
  <2>11. ASSUME NEW w \in Worker,
                Serve(w) \/ Crash(w) \/ \E r \in Reviewer : Receive(w, r)
         PROVE  cls[p].source = "manual"
    BY <2>11, <2>1, <2>2, <2>3, <2>4, <2>5, <2>6 DEF Serve
  <2> QED
    BY <2>7, <2>8, <2>10, <2>11 DEF Next
<1>2. IInv /\ [Next]_vars => [A]_vars
  BY <1>1
<1> HIDE DEF A
<1>3. Spec => [][A]_vars
  BY <1>2, Invariance, PTL DEF Spec
<1> QED
  BY <1>3 DEF A, RemovedIsDecided

\* What a reviewer decided is only ever overwritten by a batch that had the
\* product on its list (_persist_classifications writes without looking).
THEOREM FinalWordKept == Spec => FinalWordUnlessListed
<1> DEFINE A == \A p \in Product :
        HumanDecided(cls[p]) /\ job.product # p => cls'[p].source = "manual"
<1>1. IInv /\ [Next]_vars => A
  <2> SUFFICES ASSUME IInv, [Next]_vars, NEW p \in Product,
                      HumanDecided(cls[p]), job.product # p
               PROVE  cls'[p].source = "manual"
    OBVIOUS
  <2>1. cls \in [Product -> Cls] /\ cls[p].source = "manual"
        /\ RequestTypes
    BY TypesSplit DEF IInv, TypeOK, HumanDecided
  <2>2. ASSUME NEW w \in Worker, ClassifyItem(w)
        PROVE  cls'[p].source = "manual"
    <3>1. Decided(want[w], seen[w]).source = "manual"
      BY <2>1, Classes DEF RequestTypes
    <3>2. cls' = [cls EXCEPT ![Head(todo[w])] = Decided(want[w], seen[w])]
      BY <2>2 DEF ClassifyItem
    <3> QED
      BY <3>1, <3>2, <2>1
  <2>3. CASE JobClassify
    BY <2>3, <2>1 DEF JobClassify
  <2>4. CASE cls' = cls
    BY <2>4, <2>1
  <2>5. ASSUME NEW w \in Worker, Serve(w), ~ClassifyItem(w)
        PROVE  cls' = cls
    BY <2>5 DEF Serve, LockWrite, Synthesise, BulkCheck, BulkReject, ReadCurrent,
                DecisionFails, Settle, storeVars
  <2>6. ASSUME NEW w \in Worker, NEW r \in Reviewer, Receive(w, r)
        PROVE  cls' = cls
    BY <2>6 DEF Receive, ClaimRead, ReleaseRead, RefreshRead, AssignRead, Begin,
                DecideItem, DecideUnqueued, Decide, BulkStart, storeVars
  <2>7. ASSUME NEW w \in Worker, Crash(w) PROVE cls' = cls
    BY <2>7 DEF Crash, storeVars
  <2>8. CASE (\E q \in Product : JobCreate(q)) \/ JobEnqueue \/ Tick \/ UNCHANGED vars
    BY <2>8, <2>4 DEF JobCreate, JobEnqueue, Tick, vars, storeVars
  <2> QED
    BY <2>2, <2>3, <2>4, <2>5, <2>6, <2>7, <2>8 DEF Next
<1>2. IInv /\ [Next]_vars => [A]_vars
  BY <1>1
<1> HIDE DEF A
<1>3. Spec => [][A]_vars
  BY <1>2, Invariance, PTL DEF Spec
<1> QED
  BY <1>3 DEF A, FinalWordUnlessListed
=============================================================================

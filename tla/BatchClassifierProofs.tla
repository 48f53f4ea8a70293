----------------------- MODULE BatchClassifierProofs -----------------------
(***************************************************************************)
(* Proofs about BatchClassifier, for calls of any length, any batch sizes  *)
(* and triggers, and a model that may answer anything; and about           *)
(* SyncClassify, for uploads of any size and any number of requests.       *)
(***************************************************************************)
EXTENDS AICalls, FiniteSetTheorems, SequenceTheorems, TLAPS

-----------------------------------------------------------------------------
(* Lemmas about the judgement of a row *)

LEMMA RuleFires ==
    ASSUME NEW fires, NEW result
    PROVE  Rule(fires, result).fires = fires
BY DEF Rule

\* The first of five rules that fires decides.
LEMMA FirstOfFive ==
    ASSUME NEW rules, DOMAIN rules = 1 .. 5, NEW otherwise
    PROVE  FirstOf(rules, otherwise) =
             IF rules[1].fires THEN rules[1].result
             ELSE IF rules[2].fires THEN rules[2].result
             ELSE IF rules[3].fires THEN rules[3].result
             ELSE IF rules[4].fires THEN rules[4].result
             ELSE IF rules[5].fires THEN rules[5].result
             ELSE otherwise
<1> DEFINE F == Firing(rules)
<1>1. \A i : i \in F <=> i \in 1 .. 5 /\ rules[i].fires
  BY DEF Firing
<1>2. ASSUME NEW m \in F, \A i \in F : m <= i
      PROVE  FirstOf(rules, otherwise) = rules[m].result
  <2>1. Min(F) = m
    <3>1. Min(F) \in F /\ \A y \in F : Min(F) <= y
      BY <1>2 DEF Min
    <3> QED
      BY <1>1, <1>2, <3>1
  <2> QED
    BY <1>2, <2>1 DEF FirstOf
<1>3. F = {} => FirstOf(rules, otherwise) = otherwise
  BY DEF FirstOf
<1> HIDE DEF F
<1>4. CASE 1 \in F
  BY <1>1, <1>2, <1>4
<1>5. CASE 1 \notin F /\ 2 \in F
  BY <1>1, <1>2, <1>5
<1>6. CASE 1 \notin F /\ 2 \notin F /\ 3 \in F
  BY <1>1, <1>2, <1>6
<1>7. CASE 1 \notin F /\ 2 \notin F /\ 3 \notin F /\ 4 \in F
  BY <1>1, <1>2, <1>7
<1>8. CASE 1 \notin F /\ 2 \notin F /\ 3 \notin F /\ 4 \notin F
  BY <1>1, <1>2, <1>3, <1>8
<1> QED
  BY <1>4, <1>5, <1>6, <1>7, <1>8

\* A row that is given up has a failed verdict, or one for review; or it raises.
LEMMA LastChanceKinds ==
    ASSUME NEW methodology, NEW name
    PROVE  LastChance(methodology, name).kind
                \in {"parse_failed", "low_confidence", "raises"}
BY DEF LastChance, ParseFailed, Construct, Verdict

\* A row that can be read is for review, given up, or accepted as the model gave it,
\* which takes the confidence asked for and a category no guard contradicts.
LEMMA AnswerKinds ==
    ASSUME NEW methodology \in {"pt", "wwf"}, NEW name, NEW reply \in Reply
    PROVE  LET judged == JudgeAnswer(methodology, name, reply)
           IN  \/ judged.verdict.kind = "low_confidence" /\ judged.counter = "none"
               \/ judged = Judged(LastChance(methodology, name), "parse")
               \/ /\ judged = Judged(Verdict("accepted", reply.class, reply.confidence,
                                             reply),
                                     "none")
                  /\ reply.confidence >= Threshold(methodology)
<1> DEFINE fallback == Fallback(methodology, name)
           correction == Correction(methodology, name, reply.class)
           corrected == correction # NoClass
           class == IF corrected THEN correction ELSE reply.class
           confidence ==
               IF corrected THEN WWF!Capped(reply.confidence) ELSE reply.confidence
           label == IF corrected THEN class.group ELSE Label(reply)
           low == Verdict("low_confidence", class, confidence, reply)
           givenUp == Judged(LastChance(methodology, name), "parse")
           first == Judged(Verdict("low_confidence", fallback, 50, reply), "none")
           accepted == Judged(Verdict("accepted", class, confidence, reply), "none")
           rules == <<
            Rule(methodology = "pt" /\ Label(reply) = "unknown"
                    /\ ~Unusable(name) /\ fallback # NoClass,
                 first),
            Rule(methodology = "wwf" /\ Label(reply) = "unknown" /\ corrected,
                 Judged(low, "none")),
            Rule(Label(reply) \in {"out_of_scope", "unknown"}
                    /\ LooksLikeFood(name),
                 givenUp),
            Rule(label = "unknown" /\ ~Unusable(name), givenUp),
            Rule(confidence < Threshold(methodology), Judged(low, "none")) >>
<1>1. JudgeAnswer(methodology, name, reply) = FirstOf(rules, accepted)
  BY DEF JudgeAnswer
<1>2. /\ DOMAIN rules = 1 .. 5
      /\ rules[1].result = first
      /\ rules[2].result = Judged(low, "none")
      /\ rules[3].result = givenUp
      /\ rules[4].result = givenUp
      /\ rules[5].result = Judged(low, "none")
      /\ rules[5].fires <=> confidence < Threshold(methodology)
  <2> HIDE DEF first, low, givenUp, accepted, confidence, label, corrected
  <2>1. DOMAIN rules = 1 .. 5
    OBVIOUS
  <2>2. /\ rules[1].result = first
        /\ rules[2].result = Judged(low, "none")
        /\ rules[3].result = givenUp
        /\ rules[4].result = givenUp
        /\ rules[5].result = Judged(low, "none")
    BY DEF Rule
  <2>3. rules[5] = Rule(confidence < Threshold(methodology), Judged(low, "none"))
    OBVIOUS
  <2> HIDE DEF rules
  <2>4. rules[5].fires <=> confidence < Threshold(methodology)
    <3> DEFINE fires == confidence < Threshold(methodology)
    <3>1. rules[5].fires = fires
      BY <2>3, RuleFires
    <3> QED
      BY <3>1, Zenon
  <2> QED
    BY <2>1, <2>2, <2>4
<1> HIDE DEF rules, first, low, givenUp, accepted, confidence
<1>3. \/ FirstOf(rules, accepted) \in {first, Judged(low, "none"), givenUp}
      \/ FirstOf(rules, accepted) = accepted /\ ~ (confidence < Threshold(methodology))
  <2>1. FirstOf(rules, accepted) =
             IF rules[1].fires THEN rules[1].result
             ELSE IF rules[2].fires THEN rules[2].result
             ELSE IF rules[3].fires THEN rules[3].result
             ELSE IF rules[4].fires THEN rules[4].result
             ELSE IF rules[5].fires THEN rules[5].result
             ELSE accepted
    BY <1>2, FirstOfFive, Zenon
  <2> QED
    BY <1>2, <2>1
<1>4. /\ first.verdict.kind = "low_confidence" /\ first.counter = "none"
      /\ Judged(low, "none").verdict.kind = "low_confidence"
      /\ Judged(low, "none").counter = "none"
  BY DEF Judged, Verdict, first, low
<1>5. /\ reply.confidence \in 0 .. 100
      /\ WWF!Ceiling \in Nat /\ Threshold(methodology) \in Nat
      /\ Threshold(methodology) > WWF!Ceiling
  <2>1. reply.confidence \in 0 .. 100
    BY DEF Reply, Answer, BadReplies, Missing, NoLabel, BadLabel, BadReply
  <2>2. WWF!Ceiling = 69 /\ WWFThreshold \in 70 .. 100
    BY ConstantsAssumption DEF WWF!Ceiling
  <2> QED
    BY <2>1, <2>2 DEF Threshold
<1>6. corrected => confidence < Threshold(methodology)
  BY <1>5 DEF WWF!Capped, confidence
<1>7. ASSUME ~ (confidence < Threshold(methodology))
      PROVE  /\ class = reply.class /\ confidence = reply.confidence
             /\ reply.confidence >= Threshold(methodology)
  BY <1>5, <1>6, <1>7 DEF confidence
<1> QED
  BY <1>1, <1>3, <1>4, <1>7 DEF givenUp, accepted

\* What a verdict of a batch must be like: there is one, and an accepted one is the
\* model's own.
Sound(verdict) ==
    /\ verdict.kind # "none"
    /\ verdict.kind = "accepted" =>
        /\ verdict.class = verdict.reply.class
        /\ verdict.confidence = verdict.reply.confidence
        /\ verdict.confidence >= Threshold(request.methodology)

\* Whatever the model answers, a row gets such a verdict, and a failed one is counted.
LEMMA JudgeIsSound ==
    ASSUME request \in Requests, NEW name, NEW reply \in RepliesTo(request)
    PROVE  LET judged == Judge(request.methodology, name, reply)
           IN  /\ Sound(judged.verdict)
               /\ Failed(judged.verdict) => judged.counter \in {"parse", "unsupported"}
<1> DEFINE m == request.methodology
           judged == Judge(m, name, reply)
           last == LastChance(m, name)
<1>1. m \in {"pt", "wwf"} /\ reply \in Reply
  BY ConstantsAssumption
<1>2. /\ last.kind \in {"parse_failed", "low_confidence", "raises"}
      /\ \A counter : Judged(last, counter).verdict = last
      /\ \A counter : Judged(last, counter).counter = counter
  BY LastChanceKinds DEF Judged
<1>3. CASE reply.kind # "answer"
  <2>1. judged \in {Judged(last, "unsupported"), Judged(last, "parse")}
    BY <1>3 DEF Judge
  <2> HIDE DEF judged, last
  <2>2. judged.verdict = last /\ judged.counter \in {"parse", "unsupported"}
    BY <1>2, <2>1
  <2> QED
    BY <1>2, <2>2 DEF Sound, judged
<1>4. CASE reply.kind = "answer"
  <2>1. judged = JudgeAnswer(m, name, reply)
    BY <1>4 DEF Judge
  <2>2. CASE judged.verdict.kind = "low_confidence" /\ judged.counter = "none"
    BY <2>2 DEF Sound, Failed
  <2>3. CASE judged = Judged(last, "parse")
    <3> HIDE DEF judged, last
    <3>1. judged.verdict = last /\ judged.counter = "parse"
      BY <1>2, <2>3
    <3> QED
      BY <1>2, <3>1 DEF Sound, judged
  <2>4. CASE /\ judged = Judged(Verdict("accepted", reply.class, reply.confidence, reply),
                               "none")
             /\ reply.confidence >= Threshold(m)
    <3> HIDE DEF judged
    <3>1. /\ judged.verdict.kind = "accepted"
          /\ judged.verdict.class = reply.class
          /\ judged.verdict.confidence = reply.confidence
          /\ judged.verdict.reply = reply
      BY <2>4 DEF Judged, Verdict
    <3> QED
      BY <2>4, <3>1 DEF Sound, Failed, judged
  <2> QED
    BY <1>1, <2>1, <2>2, <2>3, <2>4, AnswerKinds
<1> QED
  BY <1>3, <1>4

\* What is given up raises only for an incomplete composite.
LEMMA LastChanceRaises ==
    ASSUME NEW methodology \in {"pt", "wwf"}, NEW name,
           LastChance(methodology, name).kind = "raises"
    PROVE  methodology = "wwf" /\ Incomplete(name)
BY DEF LastChance, ParseFailed, Construct, Verdict, Incomplete

\* Nor does judging a row raise for anything else.
LEMMA JudgeRaises ==
    ASSUME request \in Requests, NEW name, NEW reply \in RepliesTo(request),
           Judge(request.methodology, name, reply).verdict.kind = "raises"
    PROVE  request.methodology = "wwf" /\ Incomplete(name)
<1> DEFINE m == request.methodology
           judged == Judge(m, name, reply)
           last == LastChance(m, name)
<1>1. m \in {"pt", "wwf"} /\ reply \in Reply
  BY ConstantsAssumption
<1>2. \A counter : Judged(last, counter).verdict = last
  BY DEF Judged
<1>3. judged.verdict = last
  <2>1. CASE reply.kind # "answer"
    <3>1. judged \in {Judged(last, "unsupported"), Judged(last, "parse")}
      BY <2>1 DEF Judge
    <3> HIDE DEF judged, last
    <3> QED
      BY <1>2, <3>1
  <2>2. CASE reply.kind = "answer"
    <3>1. judged = JudgeAnswer(m, name, reply)
      BY <2>2 DEF Judge
    <3>2. \/ judged.verdict.kind = "low_confidence"
          \/ judged = Judged(last, "parse")
          \/ judged = Judged(Verdict("accepted", reply.class, reply.confidence, reply),
                             "none")
      BY <1>1, <3>1, AnswerKinds
    <3>3. Judged(Verdict("accepted", reply.class, reply.confidence, reply),
                 "none").verdict.kind = "accepted"
      BY DEF Judged, Verdict
    <3>4. judged.verdict.kind = "raises"
      OBVIOUS
    <3> HIDE DEF judged, last
    <3> QED
      BY <1>2, <3>2, <3>3, <3>4
  <2> QED
    BY <2>1, <2>2
<1>4. last.kind = "raises"
  BY <1>3
<1> QED
  BY <1>1, <1>4, LastChanceRaises

-----------------------------------------------------------------------------
(* The invariant *)

GivenUp == {i \in Product : Failed(out[i])}

\* A product that was sent has a verdict, after the first pass every product has one,
\* accepted verdicts are the model's, and the counters cover the failed ones.
BatchInv ==
    /\ request \in Requests
    /\ pass \in {"first", "retry"}
    /\ pc \in {"call", "repair", "sweep", "done", "raised"}
    /\ todo \subseteq Product
    /\ parseFailures \in Nat /\ unsupported \in Nat /\ providerErrors \in Nat
    /\ \A i \in Product : (i \in todo /\ pass = "first") \/ out[i].kind # "none"
    /\ pc = "sweep" => todo = {}
    /\ pc = "done" => pass = "retry"
    /\ AcceptedIsTheModels
    /\ Cardinality(GivenUp) <= parseFailures + unsupported + providerErrors

\* The products of a call are finitely many.
LEMMA FiniteCall ==
    ASSUME request \in Requests
    PROVE  /\ IsFiniteSet(Product)
           /\ \A s \in SUBSET Product : IsFiniteSet(s) /\ Cardinality(s) \in Nat
<1>1. request.names \in Seq(SUBSET STRING)
  BY ConstantsAssumption
<1>2. Product = 1 .. Len(request.names) /\ Len(request.names) \in Nat
  BY <1>1 DEF Product
<1>3. IsFiniteSet(Product)
  BY <1>2, FS_Interval
<1> QED
  BY <1>3, FS_Subset, FS_CardinalityType

LEMMA SentToSend == Sent \subseteq todo /\ Rest = todo \ Sent
BY DEF Sent, FirstFew, Rest

\* A chunk of the first pass.
LEMMA FirstRecord ==
    ASSUME BatchInv, pass = "first", pc \in {"call", "repair"},
           NEW verdicts, \A i \in Sent : Sound(verdicts[i]),
           NEW a \in Nat, NEW b \in Nat, NEW c \in Nat,
           Cardinality({i \in Sent : Failed(verdicts[i])}) <= a + b + c,
           Record(verdicts, a, b, c), Proceed, UNCHANGED <<request, pass>>
    PROVE  BatchInv'
<1> DEFINE new == {i \in Sent : Failed(verdicts[i])}
<1>1. /\ out' = [i \in Product |-> IF i \in Sent THEN verdicts[i] ELSE out[i]]
      /\ parseFailures' = parseFailures + a
      /\ unsupported' = unsupported + b
      /\ providerErrors' = providerErrors + c
      /\ todo' = todo \ Sent
      /\ pc' \in {"call", "sweep"} /\ (pc' = "sweep" => todo' = {})
      /\ Product' = Product
  BY SentToSend DEF Record, Proceed, Product
<1>2. Sent \subseteq Product
  BY SentToSend DEF BatchInv
<1>3. ASSUME NEW i \in Product
      PROVE  out'[i] = IF i \in Sent THEN verdicts[i] ELSE out[i]
  BY <1>1
<1>4. GivenUp' \subseteq GivenUp \cup new
  BY <1>1, <1>3 DEF GivenUp
<1>5. Cardinality(GivenUp') <= Cardinality(GivenUp) + Cardinality(new)
  <2>1. /\ IsFiniteSet(GivenUp) /\ IsFiniteSet(new)
        /\ Cardinality(GivenUp) \in Nat /\ Cardinality(new) \in Nat
    BY <1>2, FiniteCall DEF BatchInv, GivenUp
  <2>2. IsFiniteSet(GivenUp \cap new) /\ Cardinality(GivenUp \cap new) \in Nat
    BY <1>2, FiniteCall DEF BatchInv, GivenUp
  <2>3. Cardinality(GivenUp \cup new)
          = Cardinality(GivenUp) + Cardinality(new) - Cardinality(GivenUp \cap new)
    BY <2>1, FS_Union
  <2>4. IsFiniteSet(GivenUp \cup new)
    BY <2>1, FS_Union
  <2>5. Cardinality(GivenUp') <= Cardinality(GivenUp \cup new)
    BY <1>4, <2>4, FS_Subset
  <2>6. Cardinality(GivenUp') \in Nat /\ Cardinality(GivenUp \cup new) \in Nat
    BY <1>4, <2>4, FS_Subset, FS_CardinalityType
  <2> HIDE DEF new
  <2> QED
    BY <2>1, <2>2, <2>3, <2>5, <2>6
<1>6. /\ Cardinality(GivenUp) \in Nat /\ Cardinality(new) \in Nat
      /\ Cardinality(GivenUp') \in Nat
  <2>1. GivenUp' \subseteq Product
    BY <1>1 DEF GivenUp
  <2> QED
    BY <1>2, <2>1, FiniteCall DEF BatchInv, GivenUp
<1>7. Cardinality(GivenUp') <= parseFailures' + unsupported' + providerErrors'
  <2> HIDE DEF new
  <2> QED
    BY <1>1, <1>5, <1>6 DEF BatchInv, new
<1>8. AcceptedIsTheModels'
  BY <1>1, <1>3 DEF AcceptedIsTheModels, BatchInv, Sound
<1>9. \A i \in Product : (i \in todo' /\ pass' = "first") \/ out'[i].kind # "none"
  BY <1>1, <1>3 DEF BatchInv, Sound
<1> QED
  BY <1>1, <1>7, <1>8, <1>9 DEF BatchInv

\* A chunk of the second pass: only failed verdicts are replaced, and each one that is
\* comes off the counter of its kind, as far as there is something on it.
LEMMA RetryRecord ==
    ASSUME BatchInv, pass = "retry", pc \in {"call", "repair"},
           NEW verdicts, \A i \in Sent : Sound(verdicts[i]),
           NEW a, NEW b, NEW c,
           Record(verdicts, a, b, c), Proceed, UNCHANGED <<request, pass>>
    PROVE  BatchInv'
<1> DEFINE of(kind) == {i \in Sent : out[i].kind = kind /\ Replaced(i, verdicts)}
           p == of("parse_failed")
           q == of("provider_error")
<1>1. /\ out' = [i \in Product |->
                    IF i \in Sent /\ Replaced(i, verdicts) THEN verdicts[i] ELSE out[i]]
      /\ parseFailures' = AtLeastZero(parseFailures - Cardinality(p))
      /\ providerErrors' = AtLeastZero(providerErrors - Cardinality(q))
      /\ unsupported' = unsupported
      /\ todo' = todo \ Sent
      /\ pc' \in {"call", "done"}
      /\ Product' = Product
  BY SentToSend DEF Record, Recovered, Proceed, Product
<1>2. Sent \subseteq Product
  BY SentToSend DEF BatchInv
<1>3. ASSUME NEW i \in Product
      PROVE  out'[i] = IF i \in Sent /\ Replaced(i, verdicts) THEN verdicts[i] ELSE out[i]
  BY <1>1
<1>4. /\ p \cup q \subseteq GivenUp /\ p \cap q = {}
      /\ GivenUp' = GivenUp \ (p \cup q)
  BY <1>1, <1>2, <1>3 DEF GivenUp, Replaced, Failed
<1>5. /\ IsFiniteSet(GivenUp) /\ IsFiniteSet(p) /\ IsFiniteSet(q)
      /\ Cardinality(GivenUp) \in Nat /\ Cardinality(p) \in Nat /\ Cardinality(q) \in Nat
  BY <1>2, FiniteCall DEF BatchInv, GivenUp
<1>6. Cardinality(GivenUp') = Cardinality(GivenUp) - (Cardinality(p) + Cardinality(q))
  <2> HIDE DEF p, q
  <2>1. IsFiniteSet(p \cup q) /\ Cardinality(p \cup q) = Cardinality(p) + Cardinality(q)
    <3>1. Cardinality(p \cap q) = 0
      BY <1>4, FS_EmptySet
    <3>2. /\ IsFiniteSet(p \cup q)
          /\ Cardinality(p \cup q)
               = Cardinality(p) + Cardinality(q) - Cardinality(p \cap q)
      BY <1>5, FS_Union
    <3> QED
      BY <1>5, <3>1, <3>2
  <2>2. Cardinality(GivenUp \ (p \cup q))
          = Cardinality(GivenUp) - Cardinality(GivenUp \cap (p \cup q))
    BY <1>5, FS_Difference
  <2>3. GivenUp \cap (p \cup q) = p \cup q
    BY <1>4
  <2> QED
    BY <1>4, <2>1, <2>2, <2>3
<1>7. /\ parseFailures' \in Nat /\ providerErrors' \in Nat /\ unsupported' \in Nat
      /\ parseFailures' >= parseFailures - Cardinality(p)
      /\ providerErrors' >= providerErrors - Cardinality(q)
  <2> HIDE DEF p, q
  <2> QED
    BY <1>1, <1>5 DEF AtLeastZero, BatchInv
<1>8. Cardinality(GivenUp') <= parseFailures' + unsupported' + providerErrors'
  <2> HIDE DEF p, q
  <2> QED
    BY <1>1, <1>5, <1>6, <1>7 DEF BatchInv
<1>9. AcceptedIsTheModels'
  BY <1>1, <1>3 DEF AcceptedIsTheModels, BatchInv, Sound
<1>10. \A i \in Product : out'[i].kind # "none"
  BY <1>3 DEF BatchInv, Sound
<1> QED
  BY <1>1, <1>7, <1>8, <1>9, <1>10 DEF BatchInv

\* Whichever pass it is.
LEMMA AnyRecord ==
    ASSUME BatchInv, pc \in {"call", "repair"},
           NEW verdicts, \A i \in Sent : Sound(verdicts[i]),
           NEW a \in Nat, NEW b \in Nat, NEW c \in Nat,
           Cardinality({i \in Sent : Failed(verdicts[i])}) <= a + b + c,
           Record(verdicts, a, b, c), Proceed, UNCHANGED <<request, pass>>
    PROVE  BatchInv'
<1>1. CASE pass = "first"
  BY <1>1, FirstRecord
<1>2. CASE pass = "retry"
  BY <1>2, RetryRecord
<1> QED
  BY <1>1, <1>2 DEF BatchInv

\* Two finite sets that cover a third are together at least as large.
LEMMA Covering ==
    ASSUME NEW r, NEW s, NEW t, IsFiniteSet(s), IsFiniteSet(t), r \subseteq s \cup t
    PROVE  Cardinality(r) <= Cardinality(s) + Cardinality(t)
<1>1. Cardinality(s \cup t) = Cardinality(s) + Cardinality(t) - Cardinality(s \cap t)
  BY FS_Union
<1>2. IsFiniteSet(s \cup t) /\ IsFiniteSet(s \cap t)
  BY FS_Union, FS_Subset
<1>3. Cardinality(r) <= Cardinality(s \cup t) /\ IsFiniteSet(r)
  BY <1>2, FS_Subset
<1>4. /\ Cardinality(r) \in Nat /\ Cardinality(s) \in Nat /\ Cardinality(t) \in Nat
      /\ Cardinality(s \cup t) \in Nat /\ Cardinality(s \cap t) \in Nat
  BY <1>2, <1>3, FS_CardinalityType
<1> QED
  BY <1>1, <1>3, <1>4

LEMMA BatchInit == Init => BatchInv
<1> SUFFICES ASSUME Init PROVE BatchInv
  OBVIOUS
<1>1. request \in Requests
  BY DEF Init
<1>2. GivenUp = {}
  BY DEF Init, GivenUp, NoVerdict, Verdict, Failed
<1>3. AcceptedIsTheModels
  BY DEF Init, AcceptedIsTheModels, NoVerdict, Verdict
<1> QED
  BY <1>1, <1>2, <1>3, FS_EmptySet DEF Init, BatchInv

LEMMA ProviderErrorKeeps == BatchInv /\ ProviderError => BatchInv'
<1> SUFFICES ASSUME BatchInv, ProviderError PROVE BatchInv'
  OBVIOUS
<1> DEFINE verdicts == [i \in Sent |-> ProviderFailed]
<1>1. Sent \in SUBSET Product
  BY SentToSend DEF BatchInv
<1>2. IsFiniteSet(Sent) /\ Cardinality(Sent) \in Nat
  BY <1>1, FiniteCall DEF BatchInv
<1>3. \A i \in Sent : Sound(verdicts[i])
  BY DEF Sound, ProviderFailed, Verdict
<1>4. Cardinality({i \in Sent : Failed(verdicts[i])}) <= 0 + 0 + Cardinality(Sent)
  <2>1. Cardinality({i \in Sent : Failed(verdicts[i])}) <= Cardinality(Sent)
    BY <1>2, FS_Subset
  <2> QED
    BY <1>2, <2>1
<1>5. Record(verdicts, 0, 0, Cardinality(Sent)) /\ Proceed /\ UNCHANGED <<request, pass>>
  BY DEF ProviderError
<1> HIDE DEF verdicts
<1> QED
  BY <1>2, <1>3, <1>4, <1>5, AnyRecord DEF ProviderError

LEMMA RowsKeeps == BatchInv /\ Rows => BatchInv'
<1> SUFFICES ASSUME BatchInv, Rows PROVE BatchInv'
  OBVIOUS
<1>1. PICK replies \in [Sent -> RepliesTo(request)] :
        LET judged == [i \in Sent |-> Judge(request.methodology, Name(i), replies[i])]
            verdicts == [i \in Sent |-> judged[i].verdict]
        IN  IF \E i \in Sent : verdicts[i].kind = "raises"
            THEN pc' = "raised" /\ UNCHANGED <<todo, out, counters>>
            ELSE /\ Record(verdicts, Counted(judged, "parse"),
                           Counted(judged, "unsupported"), 0)
                 /\ Proceed
  BY DEF Rows
<1> DEFINE judged == [i \in Sent |-> Judge(request.methodology, Name(i), replies[i])]
           verdicts == [i \in Sent |-> judged[i].verdict]
           parse == {i \in Sent : judged[i].counter = "parse"}
           labels == {i \in Sent : judged[i].counter = "unsupported"}
<1>2. UNCHANGED <<request, pass>> /\ pc \in {"call", "repair"}
  BY DEF Rows
<1>3. ASSUME NEW i \in Sent
      PROVE  /\ Sound(verdicts[i])
             /\ Failed(verdicts[i]) => judged[i].counter \in {"parse", "unsupported"}
  <2>1. replies[i] \in RepliesTo(request) /\ request \in Requests
    BY <1>1 DEF BatchInv
  <2>2. /\ judged[i] = Judge(request.methodology, Name(i), replies[i])
        /\ verdicts[i] = judged[i].verdict
    OBVIOUS
  <2> HIDE DEF judged, verdicts
  <2> QED
    BY <2>1, <2>2, JudgeIsSound
<1>4. Counted(judged, "parse") = Cardinality(parse)
      /\ Counted(judged, "unsupported") = Cardinality(labels)
  BY DEF Counted
<1>5. CASE \E i \in Sent : verdicts[i].kind = "raises"
  <2>1. pc' = "raised" /\ UNCHANGED <<todo, out, counters, request, pass>>
    BY <1>1, <1>2, <1>5
  <2> QED
    BY <2>1 DEF BatchInv, GivenUp, AcceptedIsTheModels, Product, counters
<1>6. CASE ~ \E i \in Sent : verdicts[i].kind = "raises"
  <2>1. Record(verdicts, Cardinality(parse), Cardinality(labels), 0) /\ Proceed
    BY <1>1, <1>4, <1>6
  <2> HIDE DEF judged, verdicts
  <2>2. /\ IsFiniteSet(parse) /\ IsFiniteSet(labels)
        /\ Cardinality(parse) \in Nat /\ Cardinality(labels) \in Nat
    <3>1. parse \in SUBSET Product /\ labels \in SUBSET Product
      BY SentToSend DEF BatchInv
    <3> QED
      BY <3>1, FiniteCall DEF BatchInv
  <2>3. {i \in Sent : Failed(verdicts[i])} \subseteq parse \cup labels
    BY <1>3
  <2> HIDE DEF parse, labels
  <2>4. Cardinality({i \in Sent : Failed(verdicts[i])})
          <= Cardinality(parse) + Cardinality(labels) + 0
    <3>1. Cardinality({i \in Sent : Failed(verdicts[i])})
            <= Cardinality(parse) + Cardinality(labels)
      BY <2>2, <2>3, Covering
    <3> QED
      BY <2>2, <3>1
  <2> QED
    BY <1>2, <1>3, <2>1, <2>2, <2>4, AnyRecord
<1> QED
  BY <1>5, <1>6

LEMMA SweepKeeps == BatchInv /\ Sweep => BatchInv'
<1> SUFFICES ASSUME BatchInv, Sweep PROVE BatchInv'
  OBVIOUS
<1> DEFINE last(i) == LastChance(request.methodology, Name(i))
           verdicts == [i \in Product |-> IF i \in Swept THEN last(i) ELSE out[i]]
<1>1. CASE \E i \in Swept : verdicts[i].kind = "raises"
  <2>1. pc' = "raised"
        /\ UNCHANGED <<pass, todo, out, parseFailures, request, unsupported,
                       providerErrors>>
    BY <1>1 DEF Sweep
  <2> QED
    BY <2>1 DEF BatchInv, GivenUp, AcceptedIsTheModels, Product
<1>2. CASE ~ \E i \in Swept : verdicts[i].kind = "raises"
  <2>1. /\ out' = verdicts
        /\ parseFailures' = parseFailures + Cardinality(Swept)
        /\ todo' = Retried(verdicts) /\ pass' = "retry"
        /\ pc' \in {"done", "call"}
        /\ UNCHANGED <<request, unsupported, providerErrors>>
        /\ Product' = Product
    BY <1>2 DEF Sweep, Product
  <2>2. Swept \subseteq Product /\ Retried(verdicts) \subseteq Product
    BY DEF Swept, In, Retried, FirstFew
  <2>3. \A i \in Product : last(i).kind \in {"parse_failed", "low_confidence", "raises"}
    BY LastChanceKinds
  <2> HIDE DEF last
  <2>4. ASSUME NEW i \in Product
        PROVE  /\ out'[i] = IF i \in Swept THEN last(i) ELSE out[i]
               /\ i \in Swept => out'[i].kind \in {"parse_failed", "low_confidence"}
               /\ i \notin Swept => out'[i] = out[i]
    BY <1>2, <2>1, <2>3
  <2> HIDE DEF verdicts
  <2>5. GivenUp' \subseteq GivenUp \cup Swept
    BY <2>1, <2>4 DEF GivenUp
  <2>6. /\ IsFiniteSet(GivenUp) /\ IsFiniteSet(Swept)
        /\ Cardinality(GivenUp) \in Nat /\ Cardinality(Swept) \in Nat
        /\ Cardinality(GivenUp') \in Nat
    <3>1. GivenUp \in SUBSET Product /\ GivenUp' \in SUBSET Product
      BY <2>1 DEF GivenUp
    <3> QED
      BY <2>2, <3>1, FiniteCall DEF BatchInv
  <2>7. Cardinality(GivenUp') <= Cardinality(GivenUp) + Cardinality(Swept)
    BY <2>5, <2>6, Covering
  <2>8. Cardinality(GivenUp') <= parseFailures' + unsupported' + providerErrors'
        /\ parseFailures' \in Nat /\ unsupported' \in Nat /\ providerErrors' \in Nat
    BY <2>1, <2>6, <2>7 DEF BatchInv
  <2>9. AcceptedIsTheModels'
    BY <2>1, <2>4 DEF AcceptedIsTheModels, BatchInv
  <2>10. \A i \in Product : out'[i].kind # "none"
    BY <2>4 DEF BatchInv, Sweep
  <2> QED
    BY <2>1, <2>2, <2>8, <2>9, <2>10 DEF BatchInv
<1> QED
  BY <1>1, <1>2

LEMMA BatchStep == BatchInv /\ [Next]_vars => BatchInv'
<1> SUFFICES ASSUME BatchInv, [Next]_vars PROVE BatchInv'
  OBVIOUS
<1>1. CASE ProviderError
  BY <1>1, ProviderErrorKeeps
<1>2. CASE Unreadable
  BY <1>2 DEF Unreadable, BatchInv, GivenUp, AcceptedIsTheModels, Product, counters
<1>3. CASE Rows
  BY <1>3, RowsKeeps
<1>4. CASE Sweep
  BY <1>4, SweepKeeps
<1>5. CASE UNCHANGED vars
  BY <1>5 DEF vars, BatchInv, GivenUp, AcceptedIsTheModels, Product, counters
<1> QED
  BY <1>1, <1>2, <1>3, <1>4, <1>5 DEF Next

-----------------------------------------------------------------------------
(* The theorems *)

THEOREM BatchesKeepTheirWord == Spec => []BatchInv
BY BatchInit, BatchStep, PTL DEF Spec

\* An exception has met an incomplete composite.
RaisedInv ==
    pc = "raised" =>
        request.methodology = "wwf" /\ \E i \in Product : Incomplete(Name(i))

LEMMA RaisedStep ==
    ASSUME BatchInv, RaisedInv, [Next]_vars
    PROVE  RaisedInv'
<1> SUFFICES ASSUME pc' = "raised"
             PROVE  request.methodology = "wwf" /\ \E i \in Product : Incomplete(Name(i))
  <2>1. request' = request
    BY DEF Next, ProviderError, Unreadable, Rows, Sweep, vars
  <2> QED
    BY <2>1 DEF RaisedInv, Product, Name
<1>1. request \in Requests /\ request.methodology \in {"pt", "wwf"}
  BY ConstantsAssumption DEF BatchInv
<1>2. CASE Rows
  <2>1. PICK replies \in [Sent -> RepliesTo(request)] :
          LET judged ==
                [i \in Sent |-> Judge(request.methodology, Name(i), replies[i])]
              verdicts == [i \in Sent |-> judged[i].verdict]
          IN  \/ \E i \in Sent : verdicts[i].kind = "raises"
              \/ Proceed
    BY <1>2 DEF Rows
  <2>2. ~Proceed
    BY DEF Proceed
  <2>3. PICK i \in Sent :
          Judge(request.methodology, Name(i), replies[i]).verdict.kind = "raises"
    BY <2>1, <2>2
  <2>4. i \in Product /\ replies[i] \in RepliesTo(request)
    BY <2>1, SentToSend DEF BatchInv
  <2> QED
    BY <1>1, <2>3, <2>4, JudgeRaises
<1>3. CASE Sweep
  <2> DEFINE verdicts == [i \in Product |->
                            IF i \in Swept THEN LastChance(request.methodology, Name(i))
                            ELSE out[i]]
  <2>1. \/ \E i \in Swept : verdicts[i].kind = "raises"
        \/ pc' \in {"done", "call"}
    BY <1>3 DEF Sweep
  <2>2. Swept \subseteq Product
    BY DEF Swept, In
  <2>3. PICK i \in Swept : LastChance(request.methodology, Name(i)).kind = "raises"
    BY <2>1, <2>2
  <2> QED
    BY <1>1, <2>2, <2>3, LastChanceRaises
<1>4. CASE ProviderError
  BY <1>4 DEF ProviderError, Proceed
<1>5. CASE Unreadable
  BY <1>5 DEF Unreadable
<1>6. CASE UNCHANGED vars
  BY <1>6 DEF vars, RaisedInv
<1> QED
  BY <1>2, <1>3, <1>4, <1>5, <1>6 DEF Next

\* A call of batch_classify that returns has a verdict for every product it was asked
\* about, wherever the batches were cut and whatever was asked again; and only a name
\* whose WWF fallback is an incomplete composite keeps a call from returning.
THEOREM EveryProductIsAnswered == Spec => []OneVerdictEach
<1>1. BatchInv /\ RaisedInv => OneVerdictEach
  BY DEF BatchInv, RaisedInv, OneVerdictEach, NoVerdict, Verdict
<1>2. Init => RaisedInv
  BY DEF Init, RaisedInv
<1>3. BatchInv /\ RaisedInv /\ [Next]_vars => RaisedInv'
  BY RaisedStep
<1> QED
  BY <1>1, <1>2, <1>3, BatchesKeepTheirWord, PTL DEF Spec

\* Whatever a model answers, a verdict goes past review only as the model gave it and
\* as sure as the threshold asks: no guard, fallback or retry makes an accepted one.
THEOREM NothingAcceptedIsMadeUp == Spec => []AcceptedIsTheModels
<1>1. BatchInv => AcceptedIsTheModels
  BY DEF BatchInv
<1> QED
  BY <1>1, BatchesKeepTheirWord, PTL

\* Every failed verdict of a call that returns is covered by the counters beside it.
THEOREM FailuresReachTheCounters == Spec => []FailuresAreCounted
<1>1. BatchInv => FailuresAreCounted
  BY DEF BatchInv, FailuresAreCounted, GivenUp
<1> QED
  BY <1>1, BatchesKeepTheirWord, PTL

-----------------------------------------------------------------------------
(* Synchronous classification *)

Written == {"rule", "ai", "unsure", "system"}
Doubtful == {"unsure", "system"}

\* The products a request has still to come to.
Ahead(r) == Range(r.todo) \cup Range(r.later)

Locals == {"rules", "provider", "loop", "todo", "later", "row", "enqueue", "alone"}
IsRequest(r) == r = [name \in Locals |-> r[name]]

RequestFits(l, r) ==
    /\ IsRequest(r)
    /\ l \in {"idle", "next", "row", "item"}
    /\ r.todo \in Seq(Item) /\ r.later \in Seq(Item)
    /\ l \in {"row", "item"} =>
        /\ r.todo # <<>> /\ r.row \in Written
        /\ r.row \in Doubtful => r.enqueue

\* What a request that nobody overlaps knows: it has every unsettled product before
\* it, or the product is in the queue, and the row it has just stored is still there
\* unless a person decided.
NothingMissed(l, r, rows, queue) ==
    /\ {p \in Enabled : rows[p] \in Doubtful \cup {"none"}} \subseteq queue \cup Ahead(r)
    /\ l = "item" => rows[Head(r.todo)] \in {r.row, "person"}

Alone(w) == step[w] # "idle" /\ req[w].alone

SyncInv ==
    /\ cls = [p \in Item |-> cls[p]] /\ queued \subseteq Item
    /\ step = [w \in Worker |-> step[w]] /\ req = [w \in Worker |-> req[w]]
    /\ \A w \in Worker : RequestFits(step[w], req[w])
    /\ \A w \in Worker : Alone(w) => \A v \in Worker \ {w} : step[v] = "idle"
    /\ answered => \A w \in Worker : step[w] = "idle"
    /\ present => \A w \in Worker : Alone(w) =>
            NothingMissed(step[w], req[w], cls, queued)
    /\ Sync!AnsweredMeansSeen

LEMMA ListsAreFull ==
    ASSUME IsFiniteSet(Item), NEW list \in Sync!SetToSeqs(Item)
    PROVE  list \in Seq(Item) /\ Range(list) = Item
<1> DEFINE n == Sync!Cardinality(Item)
<1>1. n = Cardinality(Item) /\ n \in Nat
  BY FS_CardinalityType DEF Sync!Cardinality, Cardinality
<1>2. /\ list \in [1 .. n -> Item]
      /\ \A i, j \in 1 .. n : i # j => list[i] # list[j]
  BY DEF Sync!SetToSeqs
<1>3. list \in Injection(1 .. n, Item)
  BY <1>2 DEF Injection, IsInjective
<1>4. Cardinality(1 .. n) = n /\ IsFiniteSet(1 .. n)
  BY <1>1, FS_Interval
<1>5. list \in Surjection(1 .. n, Item)
  BY <1>1, <1>3, <1>4, FS_Injection
<1> HIDE DEF n
<1> QED BY <1>1, <1>2, <1>5 DEF Range, Surjection

\* One request moves; the products do not.
LEMMA RequestStep ==
    ASSUME SyncInv, NEW w \in Worker, step[w] # "idle", NEW l, NEW r,
           step' = [step EXCEPT ![w] = l], req' = [req EXCEPT ![w] = r],
           RequestFits(l, r), l # "idle" /\ r.alone => req[w].alone,
           UNCHANGED present, answered' = FALSE,
           cls' = [p \in Item |-> cls'[p]], queued' \subseteq Item,
           (present /\ l # "idle" /\ req[w].alone) => NothingMissed(l, r, cls', queued')
    PROVE  SyncInv'
<1>1. step'[w] = l /\ req'[w] = r
      /\ \A v \in Worker \ {w} : step'[v] = step[v] /\ req'[v] = req[v]
  BY DEF SyncInv
<1>2. /\ step' = [v \in Worker |-> step'[v]] /\ req' = [v \in Worker |-> req'[v]]
      /\ \A v \in Worker : RequestFits(step'[v], req'[v])
  BY <1>1 DEF SyncInv
<1>3. \A v \in Worker \ {w} : ~Alone(v)
  BY DEF SyncInv
<1>4. \A v \in Worker \ {w} : ~Alone(v)'
  BY <1>1, <1>3 DEF Alone
<1>5. Alone(w)' => l # "idle" /\ req[w].alone
  BY <1>1 DEF Alone
<1>6. \A v \in Worker : Alone(v)' => \A u \in Worker \ {v} : step'[u] = "idle"
  BY <1>1, <1>4, <1>5 DEF SyncInv, Alone
<1>7. present' => \A v \in Worker : Alone(v)' =>
            NothingMissed(step'[v], req'[v], cls', queued')
  BY <1>1, <1>4, <1>5
<1> QED BY <1>2, <1>6, <1>7 DEF SyncInv, Sync!AnsweredMeansSeen

\* A person decides a product that waits, or the upload goes.
LEMMA OthersStep ==
    ASSUME SyncInv, Enabled \subseteq Item, Sync!Decide \/ Sync!DeleteUpload
    PROVE  SyncInv'
<1>1. CASE Sync!DeleteUpload
  BY <1>1 DEF Sync!DeleteUpload, SyncInv, Alone, Sync!AnsweredMeansSeen
<1>2. CASE Sync!Decide
  <2>1. PICK p \in queued : /\ cls' = [cls EXCEPT ![p] = "person"]
                            /\ queued' = queued \ {p}
    BY <1>2 DEF Sync!Decide
  <2>2. UNCHANGED <<present, step, req, answered>>
    BY <1>2 DEF Sync!Decide
  <2>3. /\ cls' = [q \in Item |-> cls'[q]] /\ queued' \subseteq Item
        /\ cls'[p] = "person" /\ \A q \in Item \ {p} : cls'[q] = cls[q]
    BY <2>1 DEF SyncInv
  <2>4. ASSUME NEW w \in Worker, NothingMissed(step[w], req[w], cls, queued),
               RequestFits(step[w], req[w])
        PROVE  NothingMissed(step[w], req[w], cls', queued')
    <3>1. {q \in Enabled : cls'[q] \in Doubtful \cup {"none"}}
            \subseteq queued' \cup Ahead(req[w])
      BY <2>1, <2>3, <2>4 DEF NothingMissed, Doubtful
    <3>2. step[w] = "item" => Head(req[w].todo) \in Item
      BY <2>4 DEF RequestFits
    <3> QED BY <2>3, <2>4, <3>1, <3>2 DEF NothingMissed
  <2>5. answered /\ present =>
            {q \in Enabled : cls'[q] \in Doubtful \cup {"none"}} \subseteq queued'
    BY <2>1, <2>3 DEF SyncInv, Sync!AnsweredMeansSeen, Sync!Unsettled, Doubtful
  <2>6. Sync!AnsweredMeansSeen'
    BY <2>2, <2>5 DEF Sync!AnsweredMeansSeen, Sync!Unsettled, Doubtful
  <2> QED BY <2>2, <2>3, <2>4, <2>6 DEF SyncInv, Alone
<1> QED BY <1>1, <1>2

\* A handler puts a product behind it, or puts it off.
LEMMA Behind ==
    ASSUME NEW list \in Seq(Item), list # <<>>
    PROVE  /\ Head(list) \in Item /\ Tail(list) \in Seq(Item)
           /\ Range(list) = Range(Tail(list)) \cup {Head(list)}
<1>1. /\ Len(list) \in Nat \ {0} /\ DOMAIN list = 1 .. Len(list)
      /\ Head(list) = list[1] /\ Tail(list) \in Seq(Item)
      /\ Len(Tail(list)) = Len(list) - 1
      /\ \A i \in 1 .. Len(list) - 1 : Tail(list)[i] = list[i + 1]
  OBVIOUS
<1>2. ASSUME NEW p \in Range(list) PROVE p \in Range(Tail(list)) \cup {Head(list)}
  <2>1. PICK i \in 1 .. Len(list) : p = list[i]
    BY <1>1, <1>2 DEF Range
  <2>2. CASE i = 1
    BY <1>1, <2>1, <2>2
  <2>3. CASE i > 1
    <3>1. i - 1 \in 1 .. Len(list) - 1 /\ list[i] = Tail(list)[i - 1]
      BY <1>1, <2>1, <2>3
    <3>2. DOMAIN Tail(list) = 1 .. Len(list) - 1
      BY <1>1
    <3> QED BY <2>1, <3>1, <3>2 DEF Range
  <2> QED BY <2>1, <2>2, <2>3
<1>3. ASSUME NEW p \in Range(Tail(list)) \cup {Head(list)} PROVE p \in Range(list)
  <2>1. CASE p = Head(list)
    BY <1>1, <2>1 DEF Range
  <2>2. CASE p \in Range(Tail(list))
    <3>1. PICK i \in 1 .. Len(list) - 1 : p = Tail(list)[i]
      BY <1>1, <2>2 DEF Range
    <3>2. i + 1 \in 1 .. Len(list) /\ p = list[i + 1]
      BY <1>1, <3>1
    <3> QED BY <1>1, <3>2 DEF Range
  <2> QED BY <1>3, <2>1, <2>2
<1> QED BY <1>1, <1>2, <1>3

LEMMA PuttingOff ==
    ASSUME NEW later \in Seq(Item), NEW p \in Item
    PROVE  /\ Append(later, p) \in Seq(Item)
           /\ Range(Append(later, p)) = Range(later) \cup {p}
<1> DEFINE more == Append(later, p)
           last == Len(later) + 1
<1>1. /\ more \in Seq(Item) /\ DOMAIN more = DOMAIN later \cup {last}
      /\ more[last] = p /\ \A i \in DOMAIN later : more[i] = later[i]
  OBVIOUS
<1> HIDE DEF more, last
<1>2. Range(more) = Range(later) \cup {p}
  BY <1>1 DEF Range
<1> QED BY <1>1, <1>2 DEF more

LEMMA IdleFits == RequestFits("idle", Sync!Idle)
<1>1. IsRequest(Sync!Idle)
  BY DEF Sync!Idle, IsRequest, Locals
<1>2. Sync!Idle.todo = <<>> /\ Sync!Idle.later = <<>> /\ <<>> \in Seq(Item)
  BY DEF Sync!Idle
<1> QED BY <1>1, <1>2 DEF RequestFits

LEMMA NothingAhead == Range(<<>>) = {}
BY DEF Range

\* The handler goes on from one store call to the next.
LEMMA ListSteps ==
    ASSUME SyncInv, NEW w \in Worker,
           \/ Sync!ProductGone(w) \/ Sync!Skip(w) \/ Sync!PutOff(w) \/ Sync!Rules(w)
           \/ Sync!AskAI(w) \/ Sync!Apply(w) \/ Sync!Die(w)
    PROVE  SyncInv'
<1> DEFINE r == req[w]
<1>1. /\ step[w] # "idle"
      /\ UNCHANGED <<present, cls, queued, answered>>
  BY DEF Sync!ProductGone, Sync!Skip, Sync!PutOff, Sync!Rules, Sync!AskAI, Sync!Apply,
         Sync!Die, Sync!At, Sync!storeVars
<1>2. /\ RequestFits(step[w], r) /\ answered' = FALSE
      /\ cls' = [p \in Item |-> cls'[p]] /\ queued' \subseteq Item
      /\ present /\ r.alone => NothingMissed(step[w], r, cls', queued')
  BY <1>1 DEF SyncInv, Alone
<1> HIDE DEF r
<1>3. ASSUME NEW l, NEW s, step' = [step EXCEPT ![w] = l], req' = [req EXCEPT ![w] = s],
             RequestFits(l, s), l # "idle" /\ s.alone => r.alone,
             (present /\ l # "idle" /\ r.alone) => NothingMissed(l, s, cls', queued')
      PROVE  SyncInv'
  BY <1>1, <1>2, <1>3, RequestStep DEF r
<1>4. r.todo \in Seq(Item) /\ r.later \in Seq(Item) /\ IsRequest(r)
  BY <1>2 DEF RequestFits
\* The request ends, or dies.
<1>5. CASE Sync!ProductGone(w) \/ Sync!Die(w)
  <2> DEFINE s == Sync!Idle
  <2>1. step' = [step EXCEPT ![w] = "idle"] /\ req' = [req EXCEPT ![w] = s]
    BY <1>5 DEF Sync!ProductGone, Sync!Die, Sync!Respond, Sync!Goto
  <2>2. RequestFits("idle", s)
    BY IdleFits
  <2> HIDE DEF s
  <2> QED BY <1>3, <2>1, <2>2
\* A product without the methodology, or one that a person decided.
<1>6. CASE Sync!Skip(w)
  <2> DEFINE s == [r EXCEPT !.todo = Tail(r.todo)]
  <2>1. /\ step' = [step EXCEPT ![w] = "next"] /\ req' = [req EXCEPT ![w] = s]
        /\ step[w] = "next" /\ r.todo # <<>>
        /\ Head(r.todo) \notin Enabled \/ cls[Head(r.todo)] = "person"
    BY <1>6 DEF Sync!Skip, Sync!Goto, Sync!Advanced, Sync!At, Sync!Product1,
                Sync!Locked, r
  <2>2. /\ IsRequest(s) /\ s.todo = Tail(r.todo) /\ s.later = r.later
        /\ s.alone = r.alone
    BY <1>4 DEF IsRequest, Locals
  <2> HIDE DEF s
  <2>3. /\ Tail(r.todo) \in Seq(Item)
        /\ Range(r.todo) = Range(Tail(r.todo)) \cup {Head(r.todo)}
    BY <1>4, <2>1, Behind
  <2>4. RequestFits("next", s)
    BY <1>4, <2>2, <2>3 DEF RequestFits
  <2>5. NothingMissed(step[w], r, cls', queued') =>
            NothingMissed("next", s, cls', queued')
    BY <1>1, <2>1, <2>2, <2>3 DEF NothingMissed, Ahead, Doubtful
  <2> QED BY <1>2, <1>3, <2>1, <2>2, <2>4, <2>5
\* One that waits for the AI.
<1>7. CASE Sync!PutOff(w)
  <2> DEFINE s == [r EXCEPT !.todo = Tail(r.todo),
                            !.later = Append(r.later, Head(r.todo))]
  <2>1. /\ step' = [step EXCEPT ![w] = "next"]
        /\ req' = [req EXCEPT ![w] = [[r EXCEPT !.todo = Tail(@)]
                                        EXCEPT !.later = Append(@, Head(r.todo))]]
        /\ step[w] = "next" /\ r.todo # <<>>
    BY <1>7 DEF Sync!PutOff, Sync!Goto, Sync!Advanced, Sync!At, Sync!Product1, r
  <2>2. [[r EXCEPT !.todo = Tail(@)] EXCEPT !.later = Append(@, Head(r.todo))] = s
    BY <1>4 DEF IsRequest, Locals
  <2>3. /\ IsRequest(s) /\ s.todo = Tail(r.todo)
        /\ s.later = Append(r.later, Head(r.todo)) /\ s.alone = r.alone
    BY <1>4 DEF IsRequest, Locals
  <2>4. req' = [req EXCEPT ![w] = s]
    BY <2>1, <2>2
  <2> HIDE DEF s
  <2>5. /\ Tail(r.todo) \in Seq(Item) /\ Head(r.todo) \in Item
        /\ Range(r.todo) = Range(Tail(r.todo)) \cup {Head(r.todo)}
    BY <1>4, <2>1, Behind
  <2>6. /\ Append(r.later, Head(r.todo)) \in Seq(Item)
        /\ Range(Append(r.later, Head(r.todo))) = Range(r.later) \cup {Head(r.todo)}
    BY <1>4, <2>5, PuttingOff
  <2>7. RequestFits("next", s)
    BY <2>3, <2>5, <2>6 DEF RequestFits
  <2>8. NothingMissed(step[w], r, cls', queued') =>
            NothingMissed("next", s, cls', queued')
    BY <2>1, <2>3, <2>5, <2>6 DEF NothingMissed, Ahead
  <2> QED BY <1>2, <1>3, <2>1, <2>3, <2>4, <2>7, <2>8
\* A verdict, of the rules or of the AI.
<1>8. CASE Sync!Rules(w) \/ Sync!Apply(w)
  <2>1. PICK row \in Written, enqueue \in BOOLEAN :
            /\ row \in Doubtful => enqueue
            /\ step' = [step EXCEPT ![w] = "row"]
            /\ req' = [req EXCEPT ![w] = [r EXCEPT !.row = row, !.enqueue = enqueue]]
            /\ step[w] = "next" /\ r.todo # <<>>
    BY <1>8 DEF Sync!Rules, Sync!Apply, Sync!AIVerdict, Sync!Verdict, Sync!Goto, Sync!At,
                Written, Doubtful, r
  <2> DEFINE s == [r EXCEPT !.row = row, !.enqueue = enqueue]
  <2>2. /\ IsRequest(s) /\ s.todo = r.todo /\ s.later = r.later
        /\ s.alone = r.alone /\ s.row = row /\ s.enqueue = enqueue
    BY <1>4 DEF IsRequest, Locals
  <2>3. req' = [req EXCEPT ![w] = s]
    BY <2>1
  <2> HIDE DEF s
  <2>4. RequestFits("row", s)
    BY <1>4, <2>1, <2>2 DEF RequestFits
  <2>5. NothingMissed(step[w], r, cls', queued') =>
            NothingMissed("row", s, cls', queued')
    BY <2>1, <2>2 DEF NothingMissed, Ahead
  <2> QED BY <1>2, <1>3, <2>1, <2>2, <2>3, <2>4, <2>5
<1>9. CASE Sync!AskAI(w)
  <2> DEFINE s == [r EXCEPT !.loop = "verdicts", !.todo = r.later, !.later = <<>>]
  <2>1. /\ step' = [step EXCEPT ![w] = "next"] /\ req' = [req EXCEPT ![w] = s]
        /\ step[w] = "next" /\ r.todo = <<>>
    BY <1>9 DEF Sync!AskAI, Sync!Goto, r
  <2>2. /\ IsRequest(s) /\ s.todo = r.later /\ s.later = <<>> /\ s.alone = r.alone
    BY <1>4 DEF IsRequest, Locals
  <2> HIDE DEF s
  <2>3. <<>> \in Seq(Item)
    OBVIOUS
  <2>4. RequestFits("next", s)
    BY <1>4, <2>2, <2>3 DEF RequestFits
  <2>5. NothingMissed(step[w], r, cls', queued') =>
            NothingMissed("next", s, cls', queued')
    BY <2>1, <2>2, NothingAhead DEF NothingMissed, Ahead
  <2> QED BY <1>2, <1>3, <2>1, <2>2, <2>4, <2>5
<1> QED BY <1>5, <1>6, <1>7, <1>8, <1>9

\* The row of a product is stored.
LEMMA StoreRowStep ==
    ASSUME SyncInv, Enabled \subseteq Item, NEW w \in Worker, Sync!StoreRow(w)
    PROVE  SyncInv'
<1> DEFINE r == req[w]
           p == Head(r.todo)
<1>1. /\ step[w] = "row" /\ UNCHANGED <<present, queued, answered>>
      /\ \/ /\ Sync!Refused /\ Sync!Respond(w) /\ UNCHANGED cls
         \/ /\ cls' = [cls EXCEPT ![p] = r.row]
            /\ step' = [step EXCEPT ![w] = "item"] /\ req' = [req EXCEPT ![w] = r]
  BY DEF Sync!StoreRow, Sync!Product1, Sync!Goto
<1>2. /\ RequestFits("row", r) /\ answered' = FALSE
      /\ cls = [q \in Item |-> cls[q]] /\ queued \subseteq Item
      /\ present /\ r.alone => NothingMissed("row", r, cls, queued)
  BY <1>1 DEF SyncInv, Alone
<1>3. CASE Sync!Refused /\ Sync!Respond(w) /\ UNCHANGED cls
  <2>1. step' = [step EXCEPT ![w] = "idle"] /\ req' = [req EXCEPT ![w] = Sync!Idle]
    BY <1>3 DEF Sync!Respond, Sync!Goto
  <2> QED BY <1>1, <1>2, <1>3, <2>1, IdleFits, RequestStep
<1>4. CASE /\ cls' = [cls EXCEPT ![p] = r.row]
           /\ step' = [step EXCEPT ![w] = "item"] /\ req' = [req EXCEPT ![w] = r]
  <2>1. /\ p \in Item
        /\ Range(r.todo) = Range(Tail(r.todo)) \cup {p}
    BY <1>2, Behind DEF RequestFits
  <2> HIDE DEF r, p
  <2>2. /\ cls' = [q \in Item |-> cls'[q]] /\ cls'[p] = r.row
        /\ \A q \in Item \ {p} : cls'[q] = cls[q]
    BY <1>2, <1>4, <2>1
  <2>3. RequestFits("item", r)
    BY <1>2 DEF RequestFits
  <2>4. NothingMissed("row", r, cls, queued) => NothingMissed("item", r, cls', queued')
    <3> SUFFICES ASSUME NothingMissed("row", r, cls, queued)
                 PROVE  NothingMissed("item", r, cls', queued')
      OBVIOUS
    <3>1. {q \in Enabled : cls'[q] \in Doubtful \cup {"none"}}
            \subseteq queued' \cup Ahead(r)
      <4>1. ASSUME NEW q \in Enabled, cls'[q] \in Doubtful \cup {"none"}
            PROVE  q \in queued' \cup Ahead(r)
        <5>1. CASE q = p
          BY <2>1, <5>1 DEF Ahead
        <5>2. CASE q # p
          BY <1>1, <2>2, <4>1, <5>2 DEF NothingMissed
        <5> QED BY <5>1, <5>2
      <4> QED BY <4>1
    <3>2. cls'[Head(r.todo)] \in {r.row, "person"}
      BY <2>2 DEF p
    <3> QED BY <3>1, <3>2 DEF NothingMissed
  <2>5. step[w] # "idle" /\ queued' \subseteq Item
    BY <1>1, <1>2
  <2>6. (present /\ "item" # "idle" /\ r.alone) => NothingMissed("item", r, cls', queued')
    BY <1>2, <2>4
  <2> QED BY <1>1, <1>2, <1>4, <2>2, <2>3, <2>5, <2>6, RequestStep DEF r
<1> QED BY <1>1, <1>3, <1>4

\* Its place in the queue, and the handler goes on.
LEMMA StoreItemStep ==
    ASSUME SyncInv, Enabled \subseteq Item, NEW w \in Worker, Sync!StoreItem(w)
    PROVE  SyncInv'
<1> DEFINE r == req[w]
           p == Head(r.todo)
           s == [r EXCEPT !.todo = Tail(r.todo)]
<1>1. /\ step[w] = "item" /\ UNCHANGED <<present, cls, answered>>
      /\ \/ /\ Sync!Refused /\ Sync!Respond(w) /\ UNCHANGED queued
         \/ /\ queued' = IF r.enqueue THEN queued \cup {p} ELSE queued \ {p}
            /\ step' = [step EXCEPT ![w] = "next"] /\ req' = [req EXCEPT ![w] = s]
  BY DEF Sync!StoreItem, Sync!Product1, Sync!Goto, Sync!Advanced
<1>2. /\ RequestFits("item", r) /\ answered' = FALSE
      /\ cls = [q \in Item |-> cls[q]] /\ queued \subseteq Item
      /\ present /\ r.alone => NothingMissed("item", r, cls, queued)
  BY <1>1 DEF SyncInv, Alone
<1>3. CASE Sync!Refused /\ Sync!Respond(w) /\ UNCHANGED queued
  <2>1. step' = [step EXCEPT ![w] = "idle"] /\ req' = [req EXCEPT ![w] = Sync!Idle]
    BY <1>3 DEF Sync!Respond, Sync!Goto
  <2> QED BY <1>1, <1>2, <1>3, <2>1, IdleFits, RequestStep
<1>4. CASE /\ queued' = IF r.enqueue THEN queued \cup {p} ELSE queued \ {p}
           /\ step' = [step EXCEPT ![w] = "next"] /\ req' = [req EXCEPT ![w] = s]
  <2>1. /\ p \in Item /\ Tail(r.todo) \in Seq(Item)
        /\ Range(r.todo) = Range(Tail(r.todo)) \cup {p}
    BY <1>2, Behind DEF RequestFits
  <2> HIDE DEF r
  <2>2. /\ IsRequest(s) /\ s.todo = Tail(r.todo) /\ s.later = r.later
        /\ s.alone = r.alone
    BY <1>2 DEF RequestFits, IsRequest, Locals
  <2> HIDE DEF p, s
  <2>3. RequestFits("next", s)
    BY <1>2, <2>1, <2>2 DEF RequestFits
  <2>4. NothingMissed("item", r, cls, queued) => NothingMissed("next", s, cls', queued')
    <3> SUFFICES ASSUME NothingMissed("item", r, cls, queued)
                 PROVE  NothingMissed("next", s, cls', queued')
      OBVIOUS
    <3>1. /\ cls[p] \in {r.row, "person"}
          /\ r.row \in Written
          /\ r.row \in Doubtful => r.enqueue
      BY <1>2 DEF NothingMissed, RequestFits, p
    <3>2. ASSUME NEW q \in Enabled, cls'[q] \in Doubtful \cup {"none"}
          PROVE  q \in queued' \cup Ahead(s)
      <4>1. cls[q] \in Doubtful \cup {"none"}
        BY <1>1, <3>2
      <4>2. CASE q = p
        <5>1. r.row \in Doubtful
          <6>1. r.row # "none" /\ "person" \notin Doubtful \cup {"none"}
            BY <3>1 DEF Written, Doubtful
          <6> QED BY <3>1, <4>1, <4>2, <6>1
        <5>2. r.enqueue
          BY <3>1, <5>1
        <5> QED BY <1>4, <4>2, <5>2
      <4>3. CASE q # p
        <5>1. q \in queued \cup Ahead(r)
          BY <4>1 DEF NothingMissed
        <5>2. q \in queued => q \in queued'
          BY <1>4, <4>3
        <5>3. q \in Ahead(r) => q \in Ahead(s)
          BY <2>1, <2>2, <4>3 DEF Ahead
        <5> QED BY <5>1, <5>2, <5>3
      <4> QED BY <4>2, <4>3
    <3> QED BY <3>2 DEF NothingMissed
  <2>5. step[w] # "idle" /\ queued' \subseteq Item /\ cls' = [q \in Item |-> cls'[q]]
    BY <1>1, <1>2, <1>4, <2>1
  <2>6. (present /\ "next" # "idle" /\ r.alone) => NothingMissed("next", s, cls', queued')
    BY <1>2, <2>4
  <2>7. s.alone => req[w].alone
    BY <2>2 DEF r
  <2> QED BY <1>1, <1>2, <1>4, <2>3, <2>5, <2>6, <2>7, RequestStep DEF r
<1> QED BY <1>1, <1>3, <1>4

\* The request is answered.
LEMMA AnswerStep ==
    ASSUME SyncInv, NEW w \in Worker, Sync!Answer(w)
    PROVE  SyncInv'
<1> DEFINE r == req[w]
<1>1. /\ step[w] = "next" /\ r.todo = <<>> /\ r.later = <<>> /\ answered' = r.alone
      /\ step' = [step EXCEPT ![w] = "idle"] /\ req' = [req EXCEPT ![w] = Sync!Idle]
      /\ UNCHANGED <<present, cls, queued>>
  BY DEF Sync!Answer, Sync!Respond, Sync!Goto, Sync!storeVars
<1>2. /\ step'[w] = "idle" /\ req'[w] = Sync!Idle
      /\ \A v \in Worker \ {w} : step'[v] = step[v] /\ req'[v] = req[v]
      /\ step' = [v \in Worker |-> step'[v]] /\ req' = [v \in Worker |-> req'[v]]
  BY <1>1 DEF SyncInv
<1>3. \A v \in Worker : RequestFits(step'[v], req'[v])
  BY <1>2, IdleFits DEF SyncInv
<1>4. \A v \in Worker : Alone(v)' => Alone(v) /\ v # w
  BY <1>1, <1>2 DEF Alone
<1>5. \A v \in Worker : Alone(v)' => \A u \in Worker \ {v} : step'[u] = "idle"
  BY <1>1, <1>4 DEF SyncInv
<1>6. answered' => \A v \in Worker : step'[v] = "idle"
  BY <1>1, <1>2 DEF SyncInv, Alone
<1>7. present' => \A v \in Worker : Alone(v)' =>
            NothingMissed(step'[v], req'[v], cls', queued')
  BY <1>1, <1>2, <1>4 DEF SyncInv
<1>8. answered' /\ present' => Sync!Unsettled \subseteq queued
  <2> SUFFICES ASSUME r.alone, present PROVE Sync!Unsettled \subseteq queued
    BY <1>1
  <2>1. NothingMissed("next", r, cls, queued)
    BY <1>1 DEF SyncInv, Alone
  <2> QED BY <1>1, <2>1, NothingAhead DEF NothingMissed, Ahead, Sync!Unsettled, Doubtful
<1>9. Sync!AnsweredMeansSeen'
  BY <1>1, <1>8 DEF Sync!AnsweredMeansSeen, Sync!Unsettled
<1> QED BY <1>1, <1>2, <1>3, <1>5, <1>6, <1>7, <1>9 DEF SyncInv

\* A request begins.  One that another is beside is not alone, and neither is the other.
LEMMA ClassifyStep ==
    ASSUME SyncInv, IsFiniteSet(Item), Enabled \subseteq Item, NEW w \in Worker,
           Sync!Classify(w)
    PROVE  SyncInv'
<1> DEFINE busy == Sync!Busy
           New(skip, provider, list) ==
             [Sync!Idle EXCEPT !.rules = ~skip \/ provider = "none",
                 !.provider = provider, !.todo = list, !.alone = busy = {}]
           Beside(v) == [req[v] EXCEPT !.alone = @ /\ v \notin busy]
<1>1. PICK skip \in BOOLEAN, provider \in {"none", "single", "batch"},
           list \in Sync!SetToSeqs(Item) :
        req' = [v \in Worker |-> IF v = w THEN New(skip, provider, list) ELSE Beside(v)]
  BY DEF Sync!Classify
<1>2. /\ step[w] = "idle" /\ step' = [step EXCEPT ![w] = "next"]
      /\ answered' = FALSE /\ UNCHANGED <<present, cls, queued>>
  BY DEF Sync!Classify, Sync!storeVars
<1> DEFINE s == New(skip, provider, list)
<1>3. /\ IsRequest(s) /\ s.todo = list /\ s.later = <<>> /\ s.alone = (busy = {})
  BY DEF Sync!Idle, IsRequest, Locals
<1>4. /\ req'[w] = s /\ \A v \in Worker \ {w} : req'[v] = Beside(v)
      /\ req' = [v \in Worker |-> req'[v]]
  BY <1>1
<1>5. /\ step'[w] = "next" /\ \A v \in Worker \ {w} : step'[v] = step[v]
      /\ step' = [v \in Worker |-> step'[v]]
  BY <1>2 DEF SyncInv
<1>6. ASSUME NEW v \in Worker
      PROVE  /\ RequestFits(step[v], Beside(v))
             /\ Beside(v).alone => v \notin busy
  <2>1. RequestFits(step[v], req[v])
    BY DEF SyncInv
  <2> DEFINE r == req[v]
             b == [r EXCEPT !.alone = @ /\ v \notin busy]
  <2> HIDE DEF r, busy
  <2>2. /\ IsRequest(b) /\ b.todo = r.todo /\ b.later = r.later
        /\ b.row = r.row /\ b.enqueue = r.enqueue /\ b.alone = (r.alone /\ v \notin busy)
    BY <2>1 DEF RequestFits, IsRequest, Locals, r
  <2>3. b = Beside(v)
    BY DEF r
  <2> HIDE DEF b
  <2>4. RequestFits(step[v], b) /\ (b.alone => v \notin busy)
    BY <2>1, <2>2 DEF RequestFits, r
  <2> QED BY <2>3, <2>4
<1> HIDE DEF s, New, Beside
<1>7. list \in Seq(Item) /\ Range(list) = Item /\ <<>> \in Seq(Item)
  BY ListsAreFull
<1>8. \A v \in Worker : RequestFits(step'[v], req'[v])
  <2>1. RequestFits("next", s)
    BY <1>3, <1>7 DEF RequestFits
  <2> QED BY <1>4, <1>5, <1>6, <2>1
<1>9. \A v \in Worker \ {w} : ~Alone(v)'
  BY <1>4, <1>5, <1>6 DEF Alone, Sync!Busy
<1>10. Alone(w)' => \A v \in Worker \ {w} : step'[v] = "idle"
  BY <1>3, <1>4, <1>5 DEF Alone, Sync!Busy
<1>11. NothingMissed("next", s, cls, queued)
  BY <1>3, <1>7 DEF NothingMissed, Ahead
<1>12. present' => \A v \in Worker : Alone(v)' =>
            NothingMissed(step'[v], req'[v], cls', queued')
  BY <1>2, <1>4, <1>5, <1>9, <1>11
<1> QED
  BY <1>2, <1>4, <1>5, <1>8, <1>9, <1>10, <1>12 DEF SyncInv, Sync!AnsweredMeansSeen

LEMMA SyncInit == ASSUME Sync!Init PROVE SyncInv
<1>1. /\ cls = [p \in Item |-> "none"] /\ queued = {} /\ answered = FALSE
      /\ step = [w \in Worker |-> "idle"] /\ req = [w \in Worker |-> Sync!Idle]
  BY DEF Sync!Init
<1> QED BY <1>1, IdleFits DEF SyncInv, Alone, Sync!AnsweredMeansSeen

LEMMA SyncNext ==
    ASSUME SyncInv, IsFiniteSet(Item), Enabled \subseteq Item, [Sync!Next]_(Sync!vars)
    PROVE  SyncInv'
<1>1. CASE UNCHANGED Sync!vars
  <2>1. UNCHANGED <<present, cls, queued, step, req, answered>>
    BY <1>1 DEF Sync!vars, Sync!storeVars
  <2> QED BY <2>1 DEF SyncInv, Alone, Sync!AnsweredMeansSeen, Sync!Unsettled
<1>2. CASE Sync!Next
  BY <1>2, ClassifyStep, ListSteps, StoreRowStep, StoreItemStep, AnswerStep, OthersStep
     DEF Sync!Next
<1> QED BY <1>1, <1>2

\* classify_upload "must never silently skip": when a request that no other overlapped
\* has been answered, every product of the upload that has the methodology has a row,
\* and an item in the queue when that row is a placeholder or unsure, for uploads of any
\* size, on both stores, wherever earlier requests died and whatever reviewers decided.
THEOREM AnsweredHaveSeen ==
    ASSUME Sync!ConstantsAssumption
    PROVE  Sync!Spec => []AnsweredMeansSeen
<1>1. IsFiniteSet(Item) /\ Enabled \subseteq Item
  BY DEF Sync!ConstantsAssumption, Sync!IsFiniteSet, IsFiniteSet
<1>2. Sync!Init => SyncInv
  BY SyncInit
<1>3. SyncInv /\ [Sync!Next]_(Sync!vars) => SyncInv'
  BY <1>1, SyncNext
<1>4. SyncInv => AnsweredMeansSeen
  BY DEF SyncInv, AnsweredMeansSeen
<1> QED BY <1>2, <1>3, <1>4, PTL DEF Sync!Spec
=============================================================================

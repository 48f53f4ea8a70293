-------------------------- MODULE BatchClassifier ---------------------------
(***************************************************************************)
(* One call of batch_classify (ai/batch_classifier.py): the products are   *)
(* sent to a model in batches, an unusable answer is asked again once, the *)
(* rows are judged against the guards of the methodology, a batch with too *)
(* many doubtful rows is swept, and the rows that failed are asked a       *)
(* second time in smaller batches.  The model may answer anything, or not  *)
(* at all.                                                                 *)
(***************************************************************************)
EXTENDS DecisionList

PT == INSTANCE PTGuards
WWF == INSTANCE WWFGuards

CONSTANTS
    Requests,       \* what may be asked: [methodology, names]
    RepliesTo(_),   \* the rows that the model may answer a request with, of Reply
    WWFThreshold,   \* ALTERA_WWF_REVIEW_THRESHOLD, in hundredths
    BatchSize,      \* DEFAULT_BATCH_SIZE
    RetryBatchSize, \* RETRY_BATCH_SIZE
    RetryFactor,    \* 10: retry batches a second pass may use
    ScopeTrigger,   \* OUT_OF_SCOPE_RATE_TRIGGER, in percent
    UnknownTrigger, \* UNKNOWN_RATE_TRIGGER
    ReviewTrigger   \* REVIEW_RATE_TRIGGER

VARIABLES
    request,        \* what is being asked
    pass,           \* "first", or "retry" for the rows that failed
    pc,             \* "call", "repair", "sweep", "done" or "raised"
    todo,           \* products of this pass still to send, in the order of the call
    out,            \* the verdict of each product
    parseFailures, unsupported, providerErrors      \* the counters returned

counters == <<parseFailures, unsupported, providerErrors>>
vars == <<request, pass, pc, todo, out, counters>>

Name(i) == request.names[i]
Product == DOMAIN request.names

-----------------------------------------------------------------------------
(* Replies and verdicts.  A PT category is a class without subgroup.  The  *)
(* label of a reply is canonical when it is spelled as the enumeration is: *)
(* "Inconnu" and "n/a" are accepted too, and mean the same category.       *)

PTClass == [group : PT!Group, sub : {"none"}, bucket : {"none"}]
NoClass == WWF!NoClass

\* WWFClassifierResult: well formed, and a system state is no composite.
WWFAnswer ==
    {c \in WWF!FoodClass :
        WWF!WellFormed(c) /\ (c.group \notin WWF!MethodologyGroup => c.bucket = "none")}

Answer(class, confidence, canonical) ==
    [kind |-> "answer", class |-> class, confidence |-> confidence,
     canonical |-> canonical]
BadReply(kind) ==
    [kind |-> kind, class |-> NoClass, confidence |-> 0, canonical |-> FALSE]
Missing == BadReply("missing")          \* no row has the product's id
NoLabel == BadReply("no_label")         \* the category is not a string
BadLabel == BadReply("bad_label")       \* a category no rule accepts

BadReplies == {Missing, NoLabel, BadLabel}

Reply ==
    BadReplies
    \cup {Answer(c, n, b) : c \in PTClass \cup WWFAnswer, n \in 0 .. 100, b \in BOOLEAN}

Verdict(kind, class, confidence, reply) ==
    [kind |-> kind, class |-> class, confidence |-> confidence, reply |-> reply]
NoVerdict == Verdict("none", NoClass, 0, Missing)
ParseFailed == Verdict("parse_failed", NoClass, 0, Missing)
ProviderFailed == Verdict("provider_error", NoClass, 0, Missing)

Usable(v) == v.kind \in {"accepted", "low_confidence"}
Failed(v) == v.kind \in {"parse_failed", "provider_error"}

Threshold(methodology) == IF methodology = "pt" THEN 70 ELSE WWFThreshold

\* "Keep it ABOVE the guard ceiling (0.69)" is asked of the variable's owner;
\* the code accepts any value in (0, 1].
ASSUME ConstantsAssumption ==
    /\ WWFThreshold \in WWF!Ceiling + 1 .. 100
    /\ BatchSize \in Nat \ {0} /\ RetryBatchSize \in Nat /\ RetryFactor \in Nat
    /\ ScopeTrigger \in Nat /\ UnknownTrigger \in Nat /\ ReviewTrigger \in Nat
    /\ \A r \in Requests :
        /\ r.methodology \in {"pt", "wwf"}
        /\ r.names \in Seq(SUBSET STRING) \ {<<>>}
        /\ RepliesTo(r) \subseteq Reply

-----------------------------------------------------------------------------
(* What a name says *)

\* _FOOD_TERMS, of which any that occurs in the name counts.
FoodTerm == {"sardines", "biscuit", "emmental", "banane", "dentifrice",
    "sirop", "lentilles", "dinde", "lardon", "pain au chocolat",
    "biscuit aperitif", "jus de fruit", "bouillon legumes", "fromage",
    "courgette", "soupe", "miel", "steak vegetal", "nuggets vegetaux",
    "boisson riz", "salade", "pate de fruit", "poulet", "chocolat au lait",
    "jus de tomate", "sauce tomate", "salade verte", "puree de fruit",
    "burger vegetal", "lait avoine", "boeuf bourguignon", "sauce salade",
    "lait amande", "lait vegetal", "lait riz", "jus de pomme",
    "bouillon volaille", "lait infantile", "lait entier", "boisson avoine",
    "almond milk", "boeuf", "jambon", "saumon", "oeuf",
    "beurre de cacahuete", "peanut butter", "tofu", "saucisse vegetale",
    "blue cheese", "cream cheese", "lait", "yaourt", "goat's milk",
    "yaourt vegetal", "fromage vegan", "vegan butter", "beurre",
    "graisse de canard", "huile", "huile olive", "huile sesame", "carotte",
    "haricot vert", "muesli", "pain blanc", "pomme de terre", "patate",
    "chips", "tortilla chips", "glace", "biscuit beurre", "pizza",
    "salade poulet", "a la creme", "cake feta"}
LooksLikeFood(name) == name \cap FoodTerm # {}

\* _is_unusable_name: nothing, or a placeholder and nothing else.
Unusable(name) == name \subseteq {"divers"}

Fallback(methodology, name) ==
    IF methodology = "wwf" THEN WWF!Fallback(name)
    ELSE LET g == PT!Fallback(name)
         IN  IF g = "none" THEN NoClass ELSE WWF!Plain(g)

Correction(methodology, name, class) ==
    IF methodology = "wwf" THEN WWF!Guard(name, class)
    ELSE LET g == PT!Guard(name, class.group)
         IN  IF g = "none" THEN NoClass ELSE WWF!Plain(g)

\* The classification is validated when it is constructed: "raises" is the
\* ValidationError, which nothing in this module catches.
Construct(methodology, class) ==
    Verdict(IF methodology = "pt" \/ WWF!WellFormed(class)
            THEN "low_confidence" ELSE "raises",
            class, 50, Missing)

\* _emit_failed_or_fallback: the last chance of a row that is given up.
LastChance(methodology, name) ==
    LET class == Fallback(methodology, name)
    IN  IF Unusable(name) \/ class = NoClass THEN ParseFailed
        ELSE Construct(methodology, class)

-----------------------------------------------------------------------------
(* One row.  The label of a reply, as the code compares it, is the group   *)
(* only when the model spelled it canonically.                             *)

Label(reply) == IF reply.canonical THEN reply.class.group ELSE "alias"

Judged(verdict, counter) == [verdict |-> verdict, counter |-> counter]

\* A row that could be read, and the counter that judging it increments.
JudgeAnswer(methodology, name, reply) ==
    LET fallback == Fallback(methodology, name)
        correction == Correction(methodology, name, reply.class)
        corrected == correction # NoClass
        class == IF corrected THEN correction ELSE reply.class
        confidence ==
            IF corrected THEN WWF!Capped(reply.confidence) ELSE reply.confidence
        label == IF corrected THEN class.group ELSE Label(reply)
        low == Verdict("low_confidence", class, confidence, reply)
        givenUp == Judged(LastChance(methodology, name), "parse")
    IN  FirstOf(<<
            Rule(methodology = "pt" /\ Label(reply) = "unknown"
                    /\ ~Unusable(name) /\ fallback # NoClass,
                 Judged(Verdict("low_confidence", fallback, 50, reply), "none")),
            Rule(methodology = "wwf" /\ Label(reply) = "unknown" /\ corrected,
                 Judged(low, "none")),
            Rule(Label(reply) \in {"out_of_scope", "unknown"}
                    /\ LooksLikeFood(name),
                 givenUp),
            Rule(label = "unknown" /\ ~Unusable(name), givenUp),
            Rule(confidence < Threshold(methodology), Judged(low, "none")) >>,
            Judged(Verdict("accepted", class, confidence, reply), "none"))

Judge(methodology, name, reply) ==
    CASE reply.kind = "answer" -> JudgeAnswer(methodology, name, reply)
      [] reply.kind = "bad_label" ->
            Judged(LastChance(methodology, name), "unsupported")
      [] OTHER -> Judged(LastChance(methodology, name), "parse")

-----------------------------------------------------------------------------
(* The call *)

Init ==
    /\ request \in Requests
    /\ pass = "first"
    /\ pc = "call"
    /\ todo = Product
    /\ out = [i \in Product |-> NoVerdict]
    /\ parseFailures = 0 /\ unsupported = 0 /\ providerErrors = 0

ChunkSize == IF pass = "first" THEN BatchSize ELSE RetryBatchSize
\* The first n of some products.
FirstFew(n, products) == {i \in products : Cardinality({j \in products : j < i}) < n}
Sent == FirstFew(ChunkSize, todo)
\* Mutant: off by one.
RestSkipping == todo \ FirstFew(ChunkSize + 1, todo)
Rest == todo \ Sent

\* What follows a chunk: the next one, the sweep, or the end.
Proceed ==
    /\ todo' = Rest
    /\ pc' = IF Rest # {} THEN "call"
             ELSE IF pass = "first" THEN "sweep" ELSE "done"

Replaced(i, verdicts) == Failed(out[i]) /\ ~Failed(verdicts[i])
\* Mutant: every row sent again is taken off its counter.
RecoveredUnseen(kind, verdicts) ==
    Cardinality({i \in Sent : out[i].kind = kind})
Recovered(kind, verdicts) ==
    Cardinality({i \in Sent : out[i].kind = kind /\ Replaced(i, verdicts)})
AtLeastZero(n) == IF n < 0 THEN 0 ELSE n

\* A first pass keeps every verdict.  A retry replaces a failed verdict by one
\* that is not, and takes it off the counter of the failure's kind.
Record(verdicts, parse, labels, provider) ==
    IF pass = "first"
    THEN /\ out' = [i \in Product |-> IF i \in Sent THEN verdicts[i] ELSE out[i]]
         /\ parseFailures' = parseFailures + parse
         /\ unsupported' = unsupported + labels
         /\ providerErrors' = providerErrors + provider
    ELSE /\ out' = [i \in Product |->
                        IF i \in Sent /\ Replaced(i, verdicts)
                        THEN verdicts[i] ELSE out[i]]
         /\ parseFailures' =
                AtLeastZero(parseFailures - Recovered("parse_failed", verdicts))
         /\ providerErrors' =
                AtLeastZero(providerErrors - Recovered("provider_error", verdicts))
         /\ UNCHANGED unsupported

(***************************************************************************)
(* The provider fails: every product of the chunk has a provider error,    *)
(* and there is no repair.                                                 *)
(***************************************************************************)
ProviderError ==
    /\ pc \in {"call", "repair"}
    /\ Record([i \in Sent |-> ProviderFailed], 0, 0, Cardinality(Sent))
    /\ Proceed
    /\ UNCHANGED <<request, pass>>

(***************************************************************************)
(* The answer cannot be read, or has none of the products: it is asked     *)
(* again, once.                                                            *)
(***************************************************************************)
Unreadable ==
    /\ pc = "call"
    /\ pc' = "repair"
    /\ UNCHANGED <<request, pass, todo, out, counters>>

(***************************************************************************)
(* Every row is judged.  After a repair the rows may be salvaged ones, or  *)
(* none at all.  An exception ends the call, and its verdicts are lost.    *)
(***************************************************************************)
Counted(judged, counter) ==
    Cardinality({i \in DOMAIN judged : judged[i].counter = counter})

Rows ==
    /\ pc \in {"call", "repair"}
    /\ \E replies \in [Sent -> RepliesTo(request)] :
        LET judged ==
                [i \in Sent |-> Judge(request.methodology, Name(i), replies[i])]
            verdicts == [i \in Sent |-> judged[i].verdict]
        IN  /\ pc = "call" => \E i \in Sent : replies[i] # Missing
            /\ IF \E i \in Sent : verdicts[i].kind = "raises"
               THEN pc' = "raised" /\ UNCHANGED <<todo, out, counters>>
               ELSE /\ Record(verdicts, Counted(judged, "parse"),
                              Counted(judged, "unsupported"), 0)
                    /\ Proceed
    /\ UNCHANGED <<request, pass>>

(***************************************************************************)
(* The sweep: when too many products of the whole call are out of scope,   *)
(* unknown or in review, every out-of-scope or unknown verdict is given    *)
(* up.  Then up to RetryLimit failed products are sent once more.          *)
(***************************************************************************)
In(groups) == {i \in Product : Usable(out[i]) /\ out[i].class.group \in groups}
InReview == {i \in Product : out[i].kind = "low_confidence"}
Exceeds(set, percent) ==
    Cardinality(set) * 100 > percent * Cardinality(Product)

TooDoubtful ==
    \/ Exceeds(In({"out_of_scope"}), ScopeTrigger)
    \/ Exceeds(In({"unknown"}), UnknownTrigger)
    \/ Exceeds(InReview, ReviewTrigger)
Swept == IF TooDoubtful THEN In({"out_of_scope", "unknown"}) ELSE {}

RetryLimit == Max({BatchSize, RetryBatchSize * RetryFactor})
Retried(verdicts) ==
    IF RetryBatchSize \in 1 .. BatchSize - 1
    THEN FirstFew(RetryLimit, {i \in Product : Failed(verdicts[i])}) ELSE {}

Sweep ==
    /\ pc = "sweep"
    /\ LET verdicts ==
            [i \in Product |-> IF i \in Swept
                               THEN LastChance(request.methodology, Name(i))
                               ELSE out[i]]
       IN  IF \E i \in Swept : verdicts[i].kind = "raises"
           THEN pc' = "raised" /\ UNCHANGED <<pass, todo, out, parseFailures>>
           ELSE /\ out' = verdicts
                /\ parseFailures' = parseFailures + Cardinality(Swept)
                /\ todo' = Retried(verdicts)
                /\ pass' = "retry"
                /\ pc' = IF Retried(verdicts) = {} THEN "done" ELSE "call"
    /\ UNCHANGED <<request, unsupported, providerErrors>>

Next == ProviderError \/ Unreadable \/ Rows \/ Sweep

Spec == Init /\ [][Next]_vars

-----------------------------------------------------------------------------
(* Properties *)

VerdictType(methodology) ==
    LET class == IF methodology = "pt" THEN PTClass ELSE WWF!FoodClass
    IN  [kind : {"accepted"}, class : class, confidence : 0 .. 100,
         reply : RepliesTo(request)]
        \cup [kind : {"low_confidence"}, class : class, confidence : 0 .. 100,
              reply : RepliesTo(request) \cup {Missing}]
        \cup {NoVerdict, ParseFailed, ProviderFailed}

TypeOK ==
    /\ request.methodology \in {"pt", "wwf"}
    /\ pass \in {"first", "retry"}
    /\ pc \in {"call", "repair", "sweep", "done", "raised"}
    /\ todo \subseteq Product
    /\ out \in [Product -> VerdictType(request.methodology)]
    /\ \A n \in {parseFailures, unsupported, providerErrors} :
        n \in 0 .. 2 * Len(request.names)

\* A verdict is accepted without review only as the model gave it: a category
\* that a guard corrected, or that a fallback chose, is never accepted,
\* whatever confidence the model claimed.
AcceptedIsTheModels ==
    \A i \in Product : out[i].kind = "accepted" =>
        /\ out[i].class = out[i].reply.class
        /\ out[i].confidence = out[i].reply.confidence
        /\ out[i].confidence >= Threshold(request.methodology)

\* The fallback of the name is a composite without its subgroup.
Incomplete(name) ==
    LET class == Fallback("wwf", name)
    IN  class # NoClass /\ ~WWF!WellFormed(class)

\* The call returns one verdict for each product, wherever batches are cut and
\* whatever subset of the products is asked again.  "One AIProviderError or
\* batched-response parse failure does NOT poison the whole input": a call ends
\* in an exception for one reason only, the fallback of a WWF composite that
\* lacks its subgroup.  Any other call, every call for Protein Tracker among
\* them, returns whatever the model answers.
OneVerdictEach ==
    /\ pc = "done" => \A i \in Product : out[i] # NoVerdict
    /\ pc = "raised" =>
        request.methodology = "wwf" /\ \E i \in Product : Incomplete(Name(i))

\* Every failed verdict the caller gets is on one of the counters it gets,
\* although a retry may take a row off another counter than the one it is on.
FailuresAreCounted ==
    pc = "done" =>
        Cardinality({i \in Product : Failed(out[i])})
            <= parseFailures + unsupported + providerErrors
=============================================================================

------------------------- MODULE MCBatchClassifier --------------------------
(***************************************************************************)
(* Calls of the batch classifier: every name of one or two expressions on  *)
(* its own, and a few calls of three products that need several batches.   *)
(* Beside them, synchronous requests that classify an upload with it: a    *)
(* behaviour is about one or the other, and MCInit chooses which.          *)
(***************************************************************************)
EXTENDS AICalls

VARIABLE focus

callVars == vars
syncVars == <<present, cls, queued, step, req, answered, sent, deaths>>
allVars == <<focus, callVars, syncVars>>

\* In memory one request after the other, and a product that does not have the
\* methodology; on Postgres two at a time.
Memory == INSTANCE SyncClassify WITH
    Product <- Item, Worker <- {CHOOSE w \in Worker : TRUE}, Store <- "memory", pc <- step
Postgres == INSTANCE SyncClassify WITH
    Product <- Enabled, MaxRequests <- 2, pc <- step

ASSUME InstancesAreMeant ==
    Store = "postgres" /\ Memory!ConstantsAssumption /\ Postgres!ConstantsAssumption

Request(methodology, names) == [methodology |-> methodology, names |-> names]

NoCall ==
    /\ request = Request("pt", <<>>) /\ pass = "first" /\ pc = "done"
    /\ todo = {} /\ out = <<>>
    /\ parseFailures = 0 /\ unsupported = 0 /\ providerErrors = 0
NoRequests ==
    /\ present = TRUE /\ cls = <<>> /\ queued = {} /\ step = <<>> /\ req = <<>>
    /\ answered = FALSE /\ sent = 0 /\ deaths = 0

MCInit ==
    \/ focus = "call" /\ Init /\ NoRequests
    \/ focus = "memory" /\ Memory!Init /\ NoCall
    \/ focus = "postgres" /\ Postgres!Init /\ NoCall

MCNext ==
    /\ \/ focus = "call" /\ Next /\ UNCHANGED syncVars
       \/ focus = "memory" /\ Memory!Next /\ UNCHANGED callVars
       \/ focus = "postgres" /\ Postgres!Next /\ UNCHANGED callVars
    /\ UNCHANGED focus

MCSpec == MCInit /\ [][MCNext]_allVars

-----------------------------------------------------------------------------
(* What the model is asked, and what it may answer *)

PTWord == {"sardines", "merguez", "biscuit", "smoothie", "the", "farine",
    "emmental", "banane", "lessive", "dentifrice", "sirop",
    "croquettes chien", "litiere", "moutarde", "lentilles", "boisson soja",
    "curry", "crackers", "choucroute", "sorbet", "sucre", "dinde", "lardon",
    "pain au chocolat", "biscuit aperitif", "jus de fruit",
    "bouillon vegetal", "bouillon legumes", "fromage", "nectar",
    "courgette", "ketchup", "soupe", "miel", "compote", "steak vegetal",
    "boisson amande", "nuggets vegetaux", "boisson riz", "salade",
    "carbonara", "cassoulet", "pate de fruit", "poulet", "chocolat au lait",
    "jus de tomate", "sauce tomate", "salade verte", "puree de fruit",
    "burger vegetal", "lait avoine", "boeuf bourguignon", "sauce salade",
    "lait amande", "lait vegetal", "lait riz", "vegan", "divers"}

WWFWord == {"eau", "jus de pomme", "ketchup", "sauce salade", "sel",
    "curry", "bicarbonate", "bouillon", "bouillon volaille",
    "lait infantile", "biberon", "insecte", "litiere", "lessive",
    "croquettes chien", "lait entier", "protein drink dairy",
    "boisson avoine", "boisson amande", "boisson soja", "almond milk",
    "boeuf", "poulet", "jambon", "merguez", "saumon", "bar", "oeuf",
    "lentilles", "noix", "beurre de cacahuete", "peanut butter",
    "pumpkin seed", "tofu", "steak vegetal", "saucisse vegetale",
    "plant-based mince", "fromage", "raclette", "blue cheese",
    "cream cheese", "lait", "yaourt", "goat's milk", "yaourt vegetal",
    "fromage vegan", "plant-based", "vegan butter", "beurre",
    "graisse de canard", "huile", "huile olive", "huile sesame", "carotte",
    "salade verte", "compote sans sucre", "haricot vert", "complet",
    "muesli", "pain blanc", "pomme de terre", "patate", "chips", "crisps",
    "tortilla chips", "compote sucree", "granola sucre", "chocolat au lait",
    "glace", "biscuit beurre", "pizza", "cassoulet", "salade poulet",
    "bouillabaisse", "margherita", "a la creme", "cake feta", "porridge",
    "green salad", "barre", "sans sucres", "wedges", "divers"}

NamesOver(words) == {{a, b} : a \in words, b \in words} \cup {{}}

Sure == 70
Unsure == 60

PTReplies ==
    BadReplies
    \cup {Answer(WWF!Plain(g), Sure, TRUE) : g \in PT!Group}
    \cup {Answer(WWF!Plain("core"), Unsure, TRUE)}
    \cup {Answer(WWF!Plain(g), Sure, FALSE) : g \in {"out_of_scope", "unknown"}}

WWFReplies ==
    {Missing, BadLabel}
    \cup {Answer(c, Sure, TRUE) :
            c \in {x \in WWFAnswer : x.bucket = "none"
                    /\ x.sub \notin {"poultry", "eggs", "nuts_seeds", "legumes"}}}
    \cup {Answer([WWF!Simple("FG1", "red_meat") EXCEPT !.bucket = b], Sure, TRUE) :
            b \in WWF!Bucket}
    \cup {Answer(WWF!Plain("FG4"), Unsure, TRUE),
          Answer(WWF!Plain("unknown"), Sure, FALSE)}

MCRequests ==
    {Request("pt", <<n>>) : n \in NamesOver(PTWord)}
    \cup {Request("wwf", <<n>>) : n \in NamesOver(WWFWord)}
    \cup {Request("pt", <<{"poulet"}, {"sucre"}, {"vegan"}>>),
          Request("wwf", <<{"pizza"}, {"lessive"}, {"noix"}>>)}

MCRepliesTo(r) ==
    IF Len(r.names) > 1
    THEN {Missing, BadLabel,
          Answer(WWF!Plain("out_of_scope"), Sure, TRUE),
          Answer(WWF!Plain("unknown"), Sure, FALSE),
          Answer(IF r.methodology = "pt" THEN WWF!Plain("animal")
                 ELSE WWF!Simple("FG1", "nuts_seeds"), Sure, TRUE)}
    ELSE IF r.methodology = "pt" THEN PTReplies ELSE WWFReplies
=============================================================================
